---- MODULE Spec2Model ----
(***************************************************************************)
(* Uetliberg ticker: the forecast-to-verdict pipeline.                     *)
(*                                                                         *)
(*   SpecLLM    one call of LocationEvaluator._analyze_with_llm            *)
(*   Spec       one run of LocationEvaluator.analyze                       *)
(*   SpecCache  the weather read path web.load_weather_data                *)
(*   SpecWeb    the evaluation read path web.get_evaluation_data           *)
(*   SpecParse  LocationEvaluator._parse_llm_response on model answers     *)
(*   SpecFetch  fetch_weather.get_temperature_forecast_for_location        *)
(*   SpecDays   LocationEvaluator._group_by_days / _filter_flight_hours    *)
(***************************************************************************)
EXTENDS Integers, Sequences, FiniteSets, TLC

VARIABLES
    llm,        \* the running call of _analyze_with_llm (locals and trace)
    run,        \* the running call of analyze() (locals and trace)
    evalFile,   \* the persisted evaluations file
    CACHED_WEATHER_DATA,  \* web.py module global
    LAST_FETCH_TIME,      \* web.py module global
    now,        \* time.time(), in seconds
    weatherFile,          \* the persisted weather file
    load,       \* the last call of load_weather_data (result and trace)
    web,        \* the last request to /api/evaluation (result and trace)
    calc        \* a pure function of the pipeline: its input and its result

vars == <<llm, run, evalFile, CACHED_WEATHER_DATA, LAST_FETCH_TIME, now,
          weatherFile, load, web, calc>>

(***************************************************************************)
(* JSON values as Python sees them after json.loads.  The texts of the     *)
(* program are written in ASCII here (ue for u-umlaut, ae for a-umlaut).   *)
(***************************************************************************)
JBool(b) == [t |-> "bool", b |-> b, n |-> 0, s |-> ""]
JNum(n) == [t |-> "num", b |-> FALSE, n |-> n, s |-> ""]
JStr(s) == [t |-> "str", b |-> FALSE, n |-> 0, s |-> s]
JNull == [t |-> "null", b |-> FALSE, n |-> 0, s |-> ""]

\* A key the dict does not have.
Absent == [t |-> "absent", b |-> FALSE, n |-> 0, s |-> ""]

\* dict.get(key, default)
Get(v, default) == IF v = Absent THEN default ELSE v

\* Strings that int() accepts, with their value.
NumericStrings == {"7"}

IntOfString(s) == IF s = "7" THEN 7 ELSE 0

\* bool(x)
PyBool(v) ==
    CASE v.t = "bool" -> v.b
      [] v.t = "num" -> v.n # 0
      [] v.t = "str" -> v.s # ""
      [] OTHER -> FALSE

\* int(x) raises TypeError on None and ValueError on a non-numeric string.
PyIntRaises(v) == v.t = "null" \/ (v.t = "str" /\ v.s \notin NumericStrings)

PyInt(v) ==
    CASE v.t = "bool" -> (IF v.b THEN 1 ELSE 0)
      [] v.t = "num" -> v.n
      [] v.t = "str" -> IntOfString(v.s)
      [] OTHER -> 0

\* Faulty variant: repr(x) in place of str(x), which quotes a string.
PyRepr(v) ==
    CASE v.t = "str" -> "'" \o v.s \o "'"
      [] v.t = "bool" -> (IF v.b THEN "True" ELSE "False")
      [] v.t = "num" -> (IF v.n = 0 THEN "0" ELSE IF v.n = 7 THEN "7" ELSE "11")
      [] OTHER -> "None"

\* str(x)
PyStr(v) ==
    CASE v.t = "str" -> v.s
      [] v.t = "bool" -> (IF v.b THEN "True" ELSE "False")
      [] v.t = "num" -> (IF v.n = 0 THEN "0" ELSE IF v.n = 7 THEN "7" ELSE "11")
      [] OTHER -> "None"

\* str.upper() on the strings of the model.
Upper(s) ==
    CASE s = "good" -> "GOOD"
      [] s = "unknown" -> "UNKNOWN"
      [] s = "None" -> "NONE"
      [] s = "True" -> "TRUE"
      [] s = "False" -> "FALSE"
      [] OTHER -> s

(***************************************************************************)
(* Calendar dates: date_key = dt.strftime("%Y-%m-%d"), kept as <<Y, M, D>>.*)
(***************************************************************************)
LOCATION_name == "Uetliberg - Startplatz Balderen"

(***************************************************************************)
(* The message content of a completion: the text the model answered with.  *)
(* json |-> FALSE is a text json.loads rejects; otherwise the text is a    *)
(* JSON object whose keys hold the values below (Absent: key missing).     *)
(***************************************************************************)
NoDetails == [isDict |-> FALSE, wind |-> Absent, thermik |-> Absent, risks |-> Absent]

EmptyContent ==
    [json |-> TRUE, flyable |-> Absent, rating |-> Absent, confidence |-> Absent,
     conditions |-> Absent, summary |-> Absent, recommendation |-> Absent,
     hasDetails |-> FALSE, details |-> NoDetails,
     hourlyIsList |-> FALSE, hourly |-> <<>>, date |-> Absent]

GarbageContent == [EmptyContent EXCEPT !.json = FALSE]

\* A complete answer; the date the model wrote is not the analysed day's.
FullContent ==
    [json |-> TRUE, flyable |-> JBool(TRUE), rating |-> JNum(7), confidence |-> JStr("7"),
     conditions |-> JStr("GOOD"), summary |-> JStr("llm summary"),
     recommendation |-> JStr("llm recommendation"),
     hasDetails |-> TRUE,
     details |-> [isDict |-> TRUE, wind |-> JStr("llm wind"), thermik |-> Absent,
                  risks |-> JStr("llm risks")],
     hourlyIsList |-> TRUE,
     hourly |-> << [isDict |-> TRUE, hour |-> JNum(9), timestamp |-> Absent,
                    conditions |-> JStr("good"), flyable |-> JBool(TRUE),
                    rating |-> JNum(7), reason |-> Absent],
                   [isDict |-> FALSE, hour |-> Absent, timestamp |-> Absent,
                    conditions |-> Absent, flyable |-> Absent,
                    rating |-> Absent, reason |-> Absent] >>,
     date |-> JStr("1999-01-01")]

\* An answer whose rating is not a number: int() raises ValueError.
BadRatingContent == [EmptyContent EXCEPT !.rating = JStr("high")]

\* The answers of the model, by name.
LLMContents == {"garbage", "empty", "full", "bad_rating"}

ContentOf(name) ==
    CASE name = "garbage" -> GarbageContent
      [] name = "full" -> FullContent
      [] name = "bad_rating" -> BadRatingContent
      [] OTHER -> EmptyContent

NoVerdict == [none |-> TRUE]

\* One entry of hourly_evaluations after validation.
ValidatedHourly(h) ==
    [hour |-> PyInt(Get(h.hour, JNum(0))),
     timestamp |-> PyStr(Get(h.timestamp, JStr(""))),
     conditions |-> Upper(PyStr(Get(h.conditions, JStr("UNKNOWN")))),
     flyable |-> PyBool(Get(h.flyable, JBool(FALSE))),
     rating |-> PyInt(Get(h.rating, JNum(0))),
     reason |-> PyStr(Get(h.reason, JStr("Keine Begruendung")))]

HourlyRaises(h) ==
    h.isDict /\ (PyIntRaises(Get(h.hour, JNum(0))) \/ PyIntRaises(Get(h.rating, JNum(0))))

RECURSIVE ValidateHourly(_)
ValidateHourly(hs) ==
    IF hs = <<>> THEN <<>>
    ELSE IF Head(hs).isDict
         THEN <<ValidatedHourly(Head(hs))>> \o ValidateHourly(Tail(hs))
         ELSE ValidateHourly(Tail(hs))

\* _parse_llm_response raises: json.loads on the content, or an int() coercion.
ParseRaises(c) ==
    \/ ~c.json
    \/ PyIntRaises(Get(c.rating, JNum(0)))
    \/ PyIntRaises(Get(c.confidence, JNum(0)))
    \/ (c.hourlyIsList /\ \E i \in 1..Len(c.hourly) : HourlyRaises(c.hourly[i]))

ParseErrorText(c) ==
    IF ~c.json THEN "Expecting value: line 1 column 1 (char 0)"
    ELSE "invalid literal for int() with base 10"

\* Faulty variant: the three detail texts are always set to the placeholder.
NormalizedDetailsOverwrite(c) ==
    [wind |-> JStr("Nicht verfuegbar"), thermik |-> JStr("Nicht verfuegbar"),
     risks |-> JStr("Nicht verfuegbar")]

\* The details dict after the three "not in" checks.
NormalizedDetails(c) ==
    LET d == IF c.hasDetails /\ c.details.isDict THEN c.details ELSE NoDetails
    IN [wind |-> Get(d.wind, JStr("Nicht verfuegbar")),
        thermik |-> Get(d.thermik, JStr("Nicht verfuegbar")),
        risks |-> Get(d.risks, JStr("Nicht verfuegbar"))]

\* The dict _parse_llm_response returns when it does not raise.
parse_llm_response(c) ==
    [flyable |-> PyBool(Get(c.flyable, JBool(FALSE))),
     rating |-> PyInt(Get(c.rating, JNum(0))),
     confidence |-> PyInt(Get(c.confidence, JNum(0))),
     conditions |-> PyStr(Get(c.conditions, JStr("UNKNOWN"))),
     summary |-> Get(c.summary, JStr("Keine Zusammenfassung verfuegbar")),
     recommendation |-> Get(c.recommendation, JStr("Keine Empfehlung verfuegbar")),
     details |-> NormalizedDetails(c),
     hourly_evaluations |-> IF c.hourlyIsList THEN ValidateHourly(c.hourly) ELSE <<>>,
     date |-> c.date]

(***************************************************************************)
(* One call of _analyze_with_llm.  What the endpoint does on one attempt:  *)
(*   kind "status"   requests.post returned a response with this status;   *)
(*                   bodyJson: response.json() decodes the body            *)
(*   kind "timeout"  requests.post raised requests.Timeout                 *)
(*   kind "reqexc"   requests.post raised another RequestException         *)
(* A 200 whose body response.json() cannot decode raises, depending on the *)
(* installed requests, requests.exceptions.JSONDecodeError (a              *)
(* RequestException, requests >= 2.27) or a plain ValueError: jsonErr.     *)
(***************************************************************************)
max_retries == 3

retry_delay == 1

OtherStatuses == {500, 503}

StatusStr(n) ==
    CASE n = 200 -> "200" [] n = 401 -> "401" [] n = 429 -> "429"
      [] n = 500 -> "500" [] n = 503 -> "503" [] OTHER -> "0"

StatusOutcome(status, text, content, bodyJson, jsonErr) ==
    [kind |-> "status", status |-> status, text |-> text, content |-> content,
     bodyJson |-> bodyJson, jsonErr |-> jsonErr]

Outcomes200 == {StatusOutcome(200, "", c, TRUE, "") : c \in LLMContents}

Outcomes200BadBody ==
    {StatusOutcome(200, "<html>", "empty", FALSE, e) :
        e \in {"RequestException", "ValueError"}}

Outcomes429 == {StatusOutcome(429, "slow down", "empty", TRUE, "")}

Outcomes401 == {StatusOutcome(401, "bad key", "empty", TRUE, "")}

OutcomesOther ==
    {StatusOutcome(s, t, "empty", TRUE, "") : s \in OtherStatuses, t \in {"", "srv"}}

OutcomesTimeout ==
    {[kind |-> "timeout", status |-> 0, text |-> "", content |-> "empty",
      bodyJson |-> TRUE, jsonErr |-> ""]}

OutcomesReqExc ==
    {[kind |-> "reqexc", status |-> 0, text |-> "connection reset",
      content |-> "empty", bodyJson |-> TRUE, jsonErr |-> ""]}

Outcomes ==
    Outcomes200 \cup Outcomes200BadBody \cup Outcomes429 \cup Outcomes401
        \cup OutcomesOther \cup OutcomesTimeout \cup OutcomesReqExc

\* The error texts the call builds.
AuthErrorText(o) ==
    "API Authentifizierungsfehler (401): Ungueltiger API-Key? Response: " \o o.text

OtherErrorText(o) ==
    "API Fehler " \o StatusStr(o.status) \o ": "
        \o (IF o.text # "" THEN o.text ELSE "Keine Fehlermeldung")

TimeoutErrorText == "OpenAI API Timeout nach 60 Sekunden"

RequestErrorText(e) == "API Request-Fehler: " \o e

BodyJsonErrorText == "Expecting value: line 1 column 1 (char 0)"

ExhaustedErrorText(last_error) ==
    "OpenAI API Call fehlgeschlagen nach 3 Versuchen. Letzter Fehler: " \o last_error

\* The call at the top of the retry loop, after lines 362-364.
CallStart ==
    [pc |-> "loop", attempt |-> 0, last_error |-> "None", requests |-> 0,
     sleeps |-> <<>>, trace |-> <<>>, outcomes |-> <<>>,
     result |-> NoVerdict, exc |-> ""]

CallIdle == [CallStart EXCEPT !.pc = "idle"]

Requested(st, o) ==
    [st EXCEPT !.requests = @ + 1,
               !.outcomes = Append(@, o),
               !.trace = Append(@, [ev |-> "request", n |-> st.attempt + 1])]

Slept(st, wait_time) ==
    [st EXCEPT !.sleeps = Append(@, wait_time),
               !.trace = Append(@, [ev |-> "sleep", n |-> wait_time]),
               !.attempt = @ + 1]

Raised(st, text) == [st EXCEPT !.pc = "raised", !.exc = text]

\* Faulty variant: the 429 back-off forgets the attempt number.
RateLimitWaitFlat(attempt) == retry_delay * 2

\* wait_time of the 429 branch.
RateLimitWait(attempt) == retry_delay * (2 ^ attempt) * 2

\* Faulty variant: the delay does not grow with the attempt number.
RetryWaitConstant(attempt) == retry_delay

\* the delay of the other retrying branches.
RetryWait(attempt) == retry_delay * (2 ^ attempt)

\* The three retrying branches: set last_error, raise on the last attempt,
\* otherwise sleep and go round the loop.
RetryOrRaise(st, text) ==
    LET st1 == [st EXCEPT !.last_error = text]
    IN IF st.attempt = max_retries - 1
       THEN Raised(st1, text)
       ELSE Slept(st1, RetryWait(st.attempt))

\* The 429 branch: sleep, then continue; last_error is not touched.
RateLimited(st) == Slept(st, RateLimitWait(st.attempt))

\* Faulty variant: a 401 is handled like any other non-200 status.
Handle401Retried(st, o) == RetryOrRaise(st, AuthErrorText(o))

\* The 401 branch: raise at once; "except Exception: raise" passes it on.
Handle401(st, o) == Raised(st, AuthErrorText(o))

\* return self._parse_llm_response(response.json())
Handle200(st, o) ==
    IF ~o.bodyJson
    THEN IF o.jsonErr = "RequestException"
         THEN RetryOrRaise(st, RequestErrorText(BodyJsonErrorText))
         ELSE Raised(st, BodyJsonErrorText)
    ELSE IF ParseRaises(ContentOf(o.content))
         THEN Raised(st, ParseErrorText(ContentOf(o.content)))
         ELSE [st EXCEPT !.pc = "returned",
                         !.result = parse_llm_response(ContentOf(o.content))]

\* One pass through the body of "for attempt in range(max_retries)".
Attempt(st0, o) ==
    LET st == Requested(st0, o)
    IN CASE o.kind = "status" /\ o.status = 200 -> Handle200(st, o)
         [] o.kind = "status" /\ o.status = 429 -> RateLimited(st)
         [] o.kind = "status" /\ o.status = 401 -> Handle401(st, o)
         [] o.kind = "status" /\ o.status \notin {200, 429, 401} ->
                RetryOrRaise(st, OtherErrorText(o))
         [] o.kind = "timeout" -> RetryOrRaise(st, TimeoutErrorText)
         [] o.kind = "reqexc" -> RetryOrRaise(st, RequestErrorText(o.text))

\* The raise after the loop (line 407).
AfterLoop(st) == Raised(st, ExhaustedErrorText(st.last_error))

\* Faulty variant: the loop runs one attempt too many.
InLoopOffByOne(st) == st.pc = "loop" /\ st.attempt <= max_retries

\* "for attempt in range(max_retries)" has another attempt to make.
InLoop(st) == st.pc = "loop" /\ st.attempt < max_retries

LoopDone(st) == st.pc = "loop" /\ st.attempt = max_retries

Terminated(st) == st.pc \in {"returned", "raised"}

(***************************************************************************)
(* SpecLLM: one call, the endpoint's answer chosen per attempt.            *)
(***************************************************************************)
OtherVarsLLM ==
    <<run, evalFile, CACHED_WEATHER_DATA, LAST_FETCH_TIME, now, weatherFile, load, web, calc>>

Respond(S) ==
    /\ InLoop(llm)
    /\ \E o \in S : llm' = Attempt(llm, o)
    /\ UNCHANGED OtherVarsLLM

Request200 == Respond(Outcomes200)

Request200BadBody == Respond(Outcomes200BadBody)

Request429 == Respond(Outcomes429)

Request401 == Respond(Outcomes401)

RequestOther == Respond(OutcomesOther)

RequestTimeout == Respond(OutcomesTimeout)

RequestException == Respond(OutcomesReqExc)

RaiseAfterLoop ==
    /\ LoopDone(llm)
    /\ llm' = AfterLoop(llm)
    /\ UNCHANGED OtherVarsLLM

(***************************************************************************)
(* Timestamps of the hourly series and the grouping by day.                *)
(* ok |-> FALSE is a key datetime.fromisoformat rejects.                   *)
(***************************************************************************)
FORECAST_DAYS == 3

FLIGHT_HOURS_START == 9

FLIGHT_HOURS_END == 18

Stamp(ymd, hour) == [ok |-> TRUE, ymd |-> ymd, hour |-> hour]

BadStamp == [ok |-> FALSE, ymd |-> <<0, 0, 0>>, hour |-> 0]

DatePool == {<<2025, 12, 30>>, <<2025, 12, 31>>, <<2026, 1, 1>>, <<2026, 1, 2>>}

StampPool ==
    {Stamp(<<2025, 12, 30>>, 8), Stamp(<<2025, 12, 31>>, 12), Stamp(<<2026, 1, 1>>, 9),
     Stamp(<<2026, 1, 2>>, 17), BadStamp}

\* dt.strftime("%Y-%m-%d")
DateKey(ymd) ==
    CASE ymd = <<2025, 12, 30>> -> "2025-12-30"
      [] ymd = <<2025, 12, 31>> -> "2025-12-31"
      [] ymd = <<2026, 1, 1>> -> "2026-01-01"
      [] ymd = <<2026, 1, 2>> -> "2026-01-02"
      [] OTHER -> "0000-00-00"

\* The zero-padded fields of a date key, as the string comparison reads them.
KeyParts(key) ==
    CASE key = "2025-12-30" -> <<2025, 12, 30>>
      [] key = "2025-12-31" -> <<2025, 12, 31>>
      [] key = "2026-01-01" -> <<2026, 1, 1>>
      [] key = "2026-01-02" -> <<2026, 1, 2>>
      [] OTHER -> <<0, 0, 0>>

\* a < b on date-key strings (character by character, fixed width).
KeyLess(a, b) ==
    LET p == KeyParts(a)
        q == KeyParts(b)
    IN \/ p[1] < q[1]
       \/ p[1] = q[1] /\ p[2] < q[2]
       \/ p[1] = q[1] /\ p[2] = q[2] /\ p[3] < q[3]

\* sorted(keys)
RECURSIVE SortedKeys(_)
SortedKeys(S) ==
    IF S = {} THEN <<>>
    ELSE LET least == CHOOSE k \in S : \A j \in S \ {k} : KeyLess(k, j)
         IN <<least>> \o SortedKeys(S \ {least})

\* seq[:n]
Take(seq, n) == SubSeq(seq, 1, IF Len(seq) < n THEN Len(seq) ELSE n)

\* Faulty variant: the end hour is kept too (start_hour <= hour <= end_hour).
filter_flight_hoursInclusive(stamps, start_hour, end_hour) ==
    {t \in stamps : t.ok /\ start_hour <= t.hour /\ t.hour <= end_hour}

\* _filter_flight_hours
filter_flight_hours(stamps, start_hour, end_hour) ==
    {t \in stamps : t.ok /\ start_hour <= t.hour /\ t.hour < end_hour}

\* The keys of days_data: one per date with a parsable timestamp.
GroupedKeys(hourly) == {DateKey(t.ymd) : t \in {u \in hourly : u.ok}}

\* Faulty variant: days_data[date_key] = {timestamp: data} replaces the group.
days_dataOverwrite(hourly) ==
    [k \in GroupedKeys(hourly) |->
        {CHOOSE t \in hourly : t.ok /\ DateKey(t.ymd) = k}]

\* The first loop of _group_by_days, and web.group_by_days: date key -> the
\* timestamps of that date; a key fromisoformat rejects is skipped.
days_data(hourly) ==
    [k \in GroupedKeys(hourly) |-> {t \in hourly : t.ok /\ DateKey(t.ymd) = k}]

\* _group_by_days: date key -> the day's flight-hour timestamps.
group_by_days(hourly) ==
    [k \in DOMAIN days_data(hourly) |->
        filter_flight_hours(days_data(hourly)[k],
                            FLIGHT_HOURS_START, FLIGHT_HOURS_END)]

\* web.api_weather, lines 521-534: filter_flight_hours(hourly_data) first,
\* then group_by_days on what is left.
api_weather(hourly) ==
    days_data(filter_flight_hours(hourly, FLIGHT_HOURS_START, FLIGHT_HOURS_END))

\* sorted(days_data.keys())[:FORECAST_DAYS]
TargetDates(hourly) == Take(SortedKeys(DOMAIN group_by_days(hourly)), FORECAST_DAYS)

(***************************************************************************)
(* analyze_day: the LLM call of one day, run to its end, and the verdict.  *)
(***************************************************************************)
RECURSIVE RunCall(_, _)
RunCall(st, outs) ==
    IF Terminated(st) THEN st
    ELSE IF LoopDone(st) THEN AfterLoop(st)
    ELSE IF outs = <<>> THEN st
    ELSE RunCall(Attempt(st, Head(outs)), Tail(outs))

\* _build_prompt raised before any request was made.
PromptErrorText == "unsupported format string passed to NoneType.__format__"

PromptFailed == Raised(CallStart, PromptErrorText)

\* datetime.now().isoformat()
TimeStr(n) ==
    CASE n = 0 -> "T0" [] n = 1 -> "T1" [] n = 2 -> "T2" [] n = 3 -> "T3" [] OTHER -> "T4"

ErrorVerdict(e, date, clock) ==
    [flyable |-> FALSE,
     rating |-> 0,
     confidence |-> 0,
     conditions |-> "DANGEROUS",
     summary |-> JStr("Fehler: " \o e),
     details |-> [wind |-> JStr(""), thermik |-> JStr(""),
                  risks |-> JStr("Systemfehler: " \o e)],
     recommendation |-> JStr("Bitte spaeter erneut versuchen."),
     timestamp |-> TimeStr(clock),
     location |-> LOCATION_name,
     date |-> JStr(date)]

\* Faulty variant: the failure is reported in the summary only.
analyze_dayNoRisk(call, date, clock) ==
    IF call.pc = "returned"
    THEN [k \in DOMAIN call.result \cup {"location", "timestamp"} |->
            CASE k = "location" -> LOCATION_name
              [] k = "date" -> JStr(date)
              [] k = "timestamp" -> TimeStr(clock)
              [] OTHER -> call.result[k]]
    ELSE [ErrorVerdict(call.exc, date, clock) EXCEPT !.details.risks = JStr("")]

\* Faulty variant: the date is set only when the model gave none.
analyze_dayKeepDate(call, date, clock) ==
    IF call.pc = "returned"
    THEN [k \in DOMAIN call.result \cup {"location", "timestamp"} |->
            CASE k = "location" -> LOCATION_name
              [] k = "date" -> Get(call.result[k], JStr(date))
              [] k = "timestamp" -> TimeStr(clock)
              [] OTHER -> call.result[k]]
    ELSE ErrorVerdict(call.exc, date, clock)

\* The dict analyze_day returns for a finished call of _analyze_with_llm.
analyze_day(call, date, clock) ==
    IF call.pc = "returned"
    THEN [k \in DOMAIN call.result \cup {"location", "timestamp"} |->
            CASE k = "location" -> LOCATION_name
              [] k = "date" -> JStr(date)
              [] k = "timestamp" -> TimeStr(clock)
              [] OTHER -> call.result[k]]
    ELSE ErrorVerdict(call.exc, date, clock)

(***************************************************************************)
(* The evaluations file: json.dump writes each Python value as a JSON      *)
(* token, json.load reads the tokens back.                                 *)
(***************************************************************************)
Tok(lit, n, s) == [lit |-> lit, n |-> n, s |-> s]

\* json.dump of a JSON-typed value
TokOfJV(v) ==
    CASE v.t = "bool" -> Tok(IF v.b THEN "true" ELSE "false", 0, "")
      [] v.t = "num" -> Tok("number", v.n, "")
      [] v.t = "str" -> Tok("string", 0, v.s)
      [] OTHER -> Tok("null", 0, "")

\* json.load of a token, as a JSON-typed value
JVOfTok(k) ==
    CASE k.lit = "true" -> JBool(TRUE)
      [] k.lit = "false" -> JBool(FALSE)
      [] k.lit = "number" -> JNum(k.n)
      [] k.lit = "string" -> JStr(k.s)
      [] OTHER -> JNull

BoolKeys == {"flyable"}

IntKeys == {"rating", "confidence", "hour"}

StrKeys == {"conditions", "location", "timestamp", "reason"}

RECURSIVE DumpValue(_, _)
DumpValue(key, x) ==
    CASE key \in BoolKeys -> Tok(IF x THEN "true" ELSE "false", 0, "")
      [] key \in IntKeys -> Tok("number", x, "")
      [] key \in StrKeys -> Tok("string", 0, x)
      [] key = "details" -> [j \in DOMAIN x |-> TokOfJV(x[j])]
      [] key = "hourly_evaluations" ->
            [i \in 1..Len(x) |-> [j \in DOMAIN x[i] |-> DumpValue(j, x[i][j])]]
      [] OTHER -> TokOfJV(x)

RECURSIVE LoadValue(_, _)
LoadValue(key, k) ==
    CASE key \in BoolKeys -> k.lit = "true"
      [] key \in IntKeys -> k.n
      [] key \in StrKeys -> k.s
      [] key = "details" -> [j \in DOMAIN k |-> JVOfTok(k[j])]
      [] key = "hourly_evaluations" ->
            [i \in 1..Len(k) |-> [j \in DOMAIN k[i] |-> LoadValue(j, k[i][j])]]
      [] OTHER -> JVOfTok(k)

DumpVerdict(v) == [key \in DOMAIN v |-> DumpValue(key, v[key])]

LoadVerdict(d) == [key \in DOMAIN d |-> LoadValue(key, d[key])]

DumpResults(results) == [i \in 1..Len(results) |-> DumpVerdict(results[i])]

NoFile == [exists |-> FALSE, complete |-> FALSE, last_updated |-> "", location |-> "",
           evaluations |-> <<>>]

\* Faulty variant: the new verdicts are added to the ones already in the file.
save_evaluations_merged(old, results, clock) ==
    [exists |-> TRUE, complete |-> TRUE, last_updated |-> TimeStr(clock),
     location |-> LOCATION_name,
     evaluations |-> old.evaluations \o DumpResults(results)]

\* _save_evaluations_to_json, open(..., 'w') and json.dump both succeeding.
save_evaluations_to_json(old, results, clock) ==
    [exists |-> TRUE, complete |-> TRUE, last_updated |-> TimeStr(clock),
     location |-> LOCATION_name, evaluations |-> DumpResults(results)]

\* open(..., 'w') succeeded and truncated the file, json.dump raised part-way.
TornFile(results, n, clock) ==
    [exists |-> TRUE, complete |-> FALSE, last_updated |-> TimeStr(clock),
     location |-> LOCATION_name, evaluations |-> DumpResults(Take(results, n))]

\* api_evaluation_raw: the 'evaluations' list of the file, [] when the file is
\* missing or json.load raises.
LoadEvaluations(file) ==
    IF file.exists /\ file.complete
    THEN [i \in 1..Len(file.evaluations) |-> LoadVerdict(file.evaluations[i])]
    ELSE <<>>

\* A batch some earlier run left in the file.
OldBatch ==
    save_evaluations_to_json(NoFile, <<ErrorVerdict("old", "2025-12-30", 0)>>, 0)

(***************************************************************************)
(* The weather file, as _load_weather_data and load_weather_data read it.  *)
(***************************************************************************)
WeatherFile(exists, parsable, hasSite, version, hourly) ==
    [exists |-> exists, parsable |-> parsable, hasSite |-> hasSite,
     version |-> version, hourly |-> hourly]

NoWeatherFile == WeatherFile(FALSE, FALSE, FALSE, 0, {})

\* _load_weather_data raises: file missing, not JSON, or no Uetliberg entry.
LoadWeatherRaises(file) == ~file.exists \/ ~file.parsable \/ ~file.hasSite

(***************************************************************************)
(* Spec: one run of analyze().                                             *)
(***************************************************************************)
RunStart(email_notifier) ==
    [pc |-> "start", sorted_dates |-> <<>>, i |-> 1, results |-> <<>>,
     dayErrors |-> <<>>, trace |-> <<>>, email_notifier |-> email_notifier,
     saved |-> "none", fileBefore |-> NoFile, resultsAtSave |-> <<>>,
     returned |-> <<>>, clock |-> 1]

RunIdle == [RunStart(FALSE) EXCEPT !.pc = "idle"]

\* What the endpoint may answer during a day of the batch.
DayOutcomes ==
    {StatusOutcome(200, "", "full", TRUE, ""),
     StatusOutcome(200, "", "garbage", TRUE, "")}
        \cup Outcomes429 \cup Outcomes401 \cup OutcomesTimeout

DaySequences == [1..max_retries -> DayOutcomes]

OtherVarsRun == <<llm, CACHED_WEATHER_DATA, LAST_FETCH_TIME, now, load, web, calc>>

\* Lines 80-88: load the series, group it, sort and truncate the dates.
AnalyzeLoad ==
    /\ run.pc = "start"
    /\ run' = IF LoadWeatherRaises(weatherFile)
              THEN [run EXCEPT !.pc = "raised"]
              ELSE [run EXCEPT !.pc = "days",
                               !.sorted_dates = TargetDates(weatherFile.hourly)]
    /\ UNCHANGED <<evalFile, weatherFile>>
    /\ UNCHANGED OtherVarsRun

\* The results list after one more pass of the loop of lines 91-95.
DayDone(r, call) ==
    [r EXCEPT !.results = Append(@, analyze_day(call, r.sorted_dates[r.i], r.clock)),
              !.dayErrors = Append(@, IF call.pc = "raised" THEN call.exc ELSE ""),
              !.trace = Append(@, "day"),
              !.i = @ + 1,
              !.clock = @ + 1]

AnalyzeDay ==
    /\ run.pc = "days"
    /\ run.i <= Len(run.sorted_dates)
    /\ \/ run' = DayDone(run, PromptFailed)
       \/ \E outs \in DaySequences : run' = DayDone(run, RunCall(CallStart, outs))
    /\ UNCHANGED <<evalFile, weatherFile>>
    /\ UNCHANGED OtherVarsRun

LoopFinished == run.pc = "days" /\ run.i > Len(run.sorted_dates)

\* Faulty variant: the save is not guarded by "if results:".
ReturnEmptySaves ==
    /\ LoopFinished
    /\ run.results = <<>>
    /\ run' = [run EXCEPT !.pc = "done", !.returned = run.results]
    /\ evalFile' = save_evaluations_to_json(evalFile, run.results, run.clock)
    /\ UNCHANGED weatherFile
    /\ UNCHANGED OtherVarsRun

\* "if results:" is false: nothing is saved, nobody is notified.
ReturnEmpty ==
    /\ LoopFinished
    /\ run.results = <<>>
    /\ run' = [run EXCEPT !.pc = "done", !.returned = run.results]
    /\ UNCHANGED <<evalFile, weatherFile>>
    /\ UNCHANGED OtherVarsRun

\* Faulty variant: a failed save ends the run with the exception.
SaveStepPropagates(outcome, file) ==
    /\ LoopFinished
    /\ run.results # <<>>
    /\ run' = [run EXCEPT !.pc = IF outcome = "ok" THEN "notify" ELSE "raised",
                          !.saved = outcome,
                          !.fileBefore = evalFile,
                          !.resultsAtSave = run.results,
                          !.trace = Append(@, "save")]
    /\ evalFile' = file
    /\ UNCHANGED weatherFile
    /\ UNCHANGED OtherVarsRun

\* Lines 98-102: the save attempt; an exception is logged and dropped.
SaveStep(outcome, file) ==
    /\ LoopFinished
    /\ run.results # <<>>
    /\ run' = [run EXCEPT !.pc = "notify", !.saved = outcome,
                          !.fileBefore = evalFile,
                          !.resultsAtSave = run.results,
                          !.trace = Append(@, "save")]
    /\ evalFile' = file
    /\ UNCHANGED weatherFile
    /\ UNCHANGED OtherVarsRun

SaveOk == SaveStep("ok", save_evaluations_to_json(evalFile, run.results, run.clock))

\* open() raised: the file is as it was.
SaveOpenFails == SaveStep("open_failed", evalFile)

\* json.dump raised after open() truncated the file.
SaveDumpFails ==
    \E n \in 0..(Len(run.results) - 1) :
        SaveStep("dump_failed", TornFile(run.results, n, run.clock))

\* Lines 105-113.  EmailNotifier has no send_multi_day_alert: the call raises
\* AttributeError, which the except clause logs.
NotifyHandOff ==
    /\ run.pc = "notify"
    /\ run.email_notifier
    /\ run' = [run EXCEPT !.pc = "return", !.trace = Append(@, "notify")]
    /\ UNCHANGED <<evalFile, weatherFile>>
    /\ UNCHANGED OtherVarsRun

NotifySkip ==
    /\ run.pc = "notify"
    /\ ~run.email_notifier
    /\ run' = [run EXCEPT !.pc = "return"]
    /\ UNCHANGED <<evalFile, weatherFile>>
    /\ UNCHANGED OtherVarsRun

Return ==
    /\ run.pc = "return"
    /\ run' = [run EXCEPT !.pc = "done", !.returned = run.results]
    /\ UNCHANGED <<evalFile, weatherFile>>
    /\ UNCHANGED OtherVarsRun

\* No cache activity in SpecLLM and Spec.
CacheIdle ==
    /\ CACHED_WEATHER_DATA = [none |-> TRUE]
    /\ LAST_FETCH_TIME = 0
    /\ now = 0
    /\ load = [pc |-> "idle", fetcher |-> FALSE]
    /\ web = [pc |-> "idle"]
    /\ calc = [fn |-> "none"]

InitLLM ==
    /\ llm = CallStart
    /\ run = RunIdle
    /\ evalFile = NoFile
    /\ weatherFile = NoWeatherFile
    /\ CacheIdle

NextLLM ==
    \/ Request429
    \/ Request200
    \/ Request200BadBody
    \/ Request401
    \/ RequestOther
    \/ RequestTimeout
    \/ RequestException
    \/ RaiseAfterLoop

SpecLLM == InitLLM /\ [][NextLLM]_vars

\* The call is synchronous code: it always takes its next step.
SpecLLMFair == SpecLLM /\ WF_vars(NextLLM)

Init ==
    /\ llm = CallIdle
    /\ \E e \in BOOLEAN : run = RunStart(e)
    /\ evalFile \in {NoFile, OldBatch}
    /\ weatherFile \in
        {NoWeatherFile} \cup {WeatherFile(TRUE, TRUE, TRUE, 1, h) : h \in SUBSET StampPool}
    /\ CacheIdle

Next ==
    \/ AnalyzeLoad
    \/ AnalyzeDay
    \/ ReturnEmpty
    \/ SaveOk
    \/ SaveOpenFails
    \/ SaveDumpFails
    \/ NotifyHandOff
    \/ NotifySkip
    \/ Return

Spec == Init /\ [][Next]_vars

(***************************************************************************)
(* SpecCache: the weather read path of the dashboard, load_weather_data,   *)
(* with the module globals CACHED_WEATHER_DATA and LAST_FETCH_TIME.        *)
(***************************************************************************)
CACHE_DURATION == 300

MaxTime == 620

MaxVersion == 3

\* How far the clock may move between two requests.
TickSteps == {149, 150}

None == [none |-> TRUE]

\* The site's entry of the weather JSON, with the debug keys the read path adds.
Series(version, debug_source, debug_timestamp) ==
    [none |-> FALSE, version |-> version, debug_source |-> debug_source,
     debug_timestamp |-> debug_timestamp]

\* Faulty variant: an entry of exactly CACHE_DURATION seconds still counts as fresh.
CacheFreshInclusive(cache, last, current_time) ==
    ~cache.none /\ current_time - last <= CACHE_DURATION

\* "CACHED_WEATHER_DATA and (current_time - LAST_FETCH_TIME < CACHE_DURATION)"
CacheFresh(cache, last, current_time) ==
    ~cache.none /\ current_time - last < CACHE_DURATION

\* What fetch_weather_for_location(save_to_file=True, ...) may do.
FetchOutcomes == {"data", "no_data", "no_site", "raises"}

LoadLog(pc, path, result, fileReads, fetchCalls, c) ==
    [pc |-> pc, path |-> path, result |-> result, fileReads |-> fileReads,
     fetchCalls |-> fetchCalls, at |-> c.now, age |-> c.now - c.last,
     cacheBefore |-> c.cache, lastBefore |-> c.last, fetcher |-> c.fetcher]

\* The live fetch wrote the file it was asked to save to.
FetchedFile(file) == WeatherFile(TRUE, TRUE, TRUE, file.version + 1, file.hourly)

\* Faulty variant: the live fetch is tried before the persisted file.
load_weather_dataLiveFirst(c, fetched) ==
    LET fileGood == c.file.exists /\ c.file.parsable /\ c.file.hasSite
        fetchCall == IF c.fetcher THEN 1 ELSE 0
        fetchedFile == IF c.fetcher /\ fetched \in {"data", "no_site"}
                       THEN [FetchedFile(c.file) EXCEPT !.hasSite = (fetched = "data")]
                       ELSE c.file
    IN IF CacheFresh(c.cache, c.last, c.now)
       THEN LET served == [c.cache EXCEPT !.debug_source = "CACHE_MEMORY",
                                          !.debug_timestamp = c.last]
            IN [cache |-> served, last |-> c.last, file |-> c.file,
                log |-> LoadLog("returned", "cache", served, 0, 0, c)]
       ELSE IF c.fetcher /\ fetched = "data"
       THEN LET data == Series(fetchedFile.version, "LIVE_FETCH", -1)
            IN [cache |-> data, last |-> c.now, file |-> fetchedFile,
                log |-> LoadLog("returned", "live", data, 0, 1, c)]
       ELSE IF fileGood
       THEN LET data == Series(c.file.version, "FILE_SYSTEM", -1)
            IN [cache |-> data, last |-> c.now, file |-> fetchedFile,
                log |-> LoadLog("returned", "file", data, 1, fetchCall, c)]
       ELSE [cache |-> c.cache, last |-> c.last, file |-> fetchedFile,
             log |-> LoadLog("raised", "none", None, 0, fetchCall, c)]

\* Faulty variant: a call that finds no data drops the expired cache entry.
load_weather_dataClearOnFail(c, fetched) ==
    LET fileRead == IF c.file.exists THEN 1 ELSE 0
        fileGood == c.file.exists /\ c.file.parsable /\ c.file.hasSite
        fetchCall == IF c.fetcher THEN 1 ELSE 0
        fetchedFile == IF c.fetcher /\ fetched \in {"data", "no_site"}
                       THEN [FetchedFile(c.file) EXCEPT !.hasSite = (fetched = "data")]
                       ELSE c.file
    IN IF CacheFresh(c.cache, c.last, c.now)
       THEN LET served == [c.cache EXCEPT !.debug_source = "CACHE_MEMORY",
                                          !.debug_timestamp = c.last]
            IN [cache |-> served, last |-> c.last, file |-> c.file,
                log |-> LoadLog("returned", "cache", served, 0, 0, c)]
       ELSE IF fileGood
       THEN LET data == Series(c.file.version, "FILE_SYSTEM", -1)
            IN [cache |-> data, last |-> c.now, file |-> c.file,
                log |-> LoadLog("returned", "file", data, 1, 0, c)]
       ELSE IF c.fetcher /\ fetched = "data"
       THEN LET data == Series(fetchedFile.version, "LIVE_FETCH", -1)
            IN [cache |-> data, last |-> c.now, file |-> fetchedFile,
                log |-> LoadLog("returned", "live", data, fileRead, 1, c)]
       ELSE [cache |-> None, last |-> 0, file |-> fetchedFile,
             log |-> LoadLog("raised", "none", None, fileRead, fetchCall, c)]

\* load_weather_data, one call: c is the state it starts in, fetched what the
\* fetcher does if it is called.  Gives the globals, the file and the call's log.
load_weather_data(c, fetched) ==
    LET fileRead == IF c.file.exists THEN 1 ELSE 0
        fileGood == c.file.exists /\ c.file.parsable /\ c.file.hasSite
        fetchCall == IF c.fetcher THEN 1 ELSE 0
        fetchedFile == IF c.fetcher /\ fetched \in {"data", "no_site"}
                       THEN [FetchedFile(c.file) EXCEPT !.hasSite = (fetched = "data")]
                       ELSE c.file
    IN IF CacheFresh(c.cache, c.last, c.now)
       THEN LET served == [c.cache EXCEPT !.debug_source = "CACHE_MEMORY",
                                          !.debug_timestamp = c.last]
            IN [cache |-> served, last |-> c.last, file |-> c.file,
                log |-> LoadLog("returned", "cache", served, 0, 0, c)]
       ELSE IF fileGood
       THEN LET data == Series(c.file.version, "FILE_SYSTEM", -1)
            IN [cache |-> data, last |-> c.now, file |-> c.file,
                log |-> LoadLog("returned", "file", data, 1, 0, c)]
       ELSE IF c.fetcher /\ fetched = "data"
       THEN LET data == Series(fetchedFile.version, "LIVE_FETCH", -1)
            IN [cache |-> data, last |-> c.now, file |-> fetchedFile,
                log |-> LoadLog("returned", "live", data, fileRead, 1, c)]
       ELSE [cache |-> c.cache, last |-> c.last, file |-> fetchedFile,
             log |-> LoadLog("raised", "none", None, fileRead, fetchCall, c)]

CacheState ==
    [cache |-> CACHED_WEATHER_DATA, last |-> LAST_FETCH_TIME, now |-> now,
     file |-> weatherFile, fetcher |-> load.fetcher]

OtherVarsCache == <<llm, run, evalFile, web, calc>>

LoadWeatherData ==
    /\ \E fetched \in FetchOutcomes :
          LET r == load_weather_data(CacheState, fetched)
          IN /\ r.file.version <= MaxVersion
             /\ CACHED_WEATHER_DATA' = r.cache
             /\ LAST_FETCH_TIME' = r.last
             /\ weatherFile' = r.file
             /\ load' = r.log
    /\ UNCHANGED now
    /\ UNCHANGED OtherVarsCache

\* api_config_apply, lines 445-452: fetch into the file, then drop the cache.
\* A fetch that raises leaves the handler before the cache is touched.
ConfigApply ==
    /\ load.fetcher
    /\ \E fetched \in FetchOutcomes \ {"raises"} :
          /\ weatherFile' = IF fetched \in {"data", "no_site"}
                            THEN [FetchedFile(weatherFile) EXCEPT !.hasSite = (fetched = "data")]
                            ELSE weatherFile
          /\ weatherFile'.version <= MaxVersion
    /\ CACHED_WEATHER_DATA' = None
    /\ LAST_FETCH_TIME' = 0
    /\ UNCHANGED <<now, load>>
    /\ UNCHANGED OtherVarsCache

\* api_trigger_update or a cron run rewrote the weather file.
WeatherFileRewritten ==
    /\ weatherFile.version < MaxVersion
    /\ weatherFile' = FetchedFile(weatherFile)
    /\ UNCHANGED <<CACHED_WEATHER_DATA, LAST_FETCH_TIME, now, load>>
    /\ UNCHANGED OtherVarsCache

\* The ephemeral storage was cleared, or the file is read while half written.
WeatherFileLost ==
    /\ weatherFile.exists
    /\ weatherFile' \in {[weatherFile EXCEPT !.exists = FALSE],
                          [weatherFile EXCEPT !.parsable = FALSE]}
    /\ UNCHANGED <<CACHED_WEATHER_DATA, LAST_FETCH_TIME, now, load>>
    /\ UNCHANGED OtherVarsCache

Tick ==
    /\ \E d \in TickSteps : now + d <= MaxTime /\ now' = now + d
    /\ UNCHANGED <<CACHED_WEATHER_DATA, LAST_FETCH_TIME, weatherFile, load>>
    /\ UNCHANGED OtherVarsCache

InitCache ==
    /\ llm = CallIdle
    /\ run = RunIdle
    /\ evalFile = NoFile
    /\ CACHED_WEATHER_DATA = None
    /\ LAST_FETCH_TIME = 0
    /\ now = 0
    /\ web = [pc |-> "idle"]
    /\ calc = [fn |-> "none"]
    /\ weatherFile \in {NoWeatherFile, WeatherFile(TRUE, TRUE, TRUE, 1, {})}
    /\ \E f \in BOOLEAN :
          load = [LoadLog("idle", "none", None, 0, 0,
                          [now |-> 0, last |-> 0, cache |-> None, fetcher |-> f])
                  EXCEPT !.fetcher = f]

NextCache ==
    \/ LoadWeatherData
    \/ ConfigApply
    \/ WeatherFileRewritten
    \/ WeatherFileLost
    \/ Tick

SpecCache == InitCache /\ [][NextCache]_vars

(***************************************************************************)
(* Properties of _analyze_with_llm (SpecLLM).                              *)
(***************************************************************************)
Is429(o) == o.kind = "status" /\ o.status = 429

Is401(o) == o.kind = "status" /\ o.status = 401

Is200(o) == o.kind = "status" /\ o.status = 200

\* A failure the loop retries: a non-200 status other than 401, a timeout,
\* a network exception.
IsTransient(o) ==
    \/ o.kind \in {"timeout", "reqexc"}
    \/ o.kind = "status" /\ o.status \notin {200, 401}

AllRateLimited(st) == \A k \in 1..Len(st.outcomes) : Is429(st.outcomes[k])

StrictlyIncreasing(seq) == \A k \in 1..(Len(seq) - 1) : seq[k] < seq[k + 1]

\* The position in the trace of the k-th request.
RequestAt(st, k) == CHOOSE p \in 1..Len(st.trace) : st.trace[p] = [ev |-> "request", n |-> k]

\* C1: against an endpoint that answers 429 to every request the call makes
\* exactly max_retries requests and then raises, never returns, and the
\* back-off delays it sleeps are strictly increasing.
C1_RetryBound429 ==
    AllRateLimited(llm) =>
        /\ llm.requests <= max_retries
        /\ llm.pc # "returned"
        /\ (LoopDone(llm) \/ llm.pc = "raised") => llm.requests = max_retries
        /\ llm.pc = "loop" => Len(llm.sleeps) = llm.requests
        /\ StrictlyIncreasing(llm.sleeps)

C1_Witness ==
    /\ AllRateLimited(llm)
    /\ llm.pc = "raised"
    /\ llm.requests = max_retries
    /\ Len(llm.sleeps) = max_retries

\* C2: a 401 on any attempt is the last thing the call does: it raises the
\* authentication error, with no request and no sleep after that response.
C2_AuthFailsAtOnce ==
    \A k \in 1..Len(llm.outcomes) :
        Is401(llm.outcomes[k]) =>
            /\ k = Len(llm.outcomes)
            /\ llm.pc = "raised"
            /\ llm.exc = AuthErrorText(llm.outcomes[k])
            /\ llm.trace[Len(llm.trace)] = [ev |-> "request", n |-> k]
            /\ Len(llm.sleeps) = k - 1

C2_Witness ==
    /\ Len(llm.outcomes) = max_retries
    /\ Is401(llm.outcomes[max_retries])
    /\ llm.pc = "raised"

\* C3: the call makes at most 3 requests and always ends by returning or
\* raising; a transient failure on attempt k < 3 is followed by a back-off
\* sleep and then attempt k+1, on attempt 3 by a terminal failure.
C3_Step ==
    /\ llm.requests <= max_retries
    /\ llm.requests = Len(llm.outcomes)
    /\ \A k \in 1..Len(llm.outcomes) :
          IsTransient(llm.outcomes[k]) =>
             IF k < max_retries
             THEN /\ llm.trace[RequestAt(llm, k) + 1].ev = "sleep"
                  /\ \/ llm.pc = "loop" /\ llm.attempt = k /\ Len(llm.outcomes) = k
                     \/ llm.trace[RequestAt(llm, k) + 2] = [ev |-> "request", n |-> k + 1]
             ELSE llm.pc = "raised" \/ LoopDone(llm)

C3_BoundedRetry == [](C3_Step) /\ <>(Terminated(llm))

C3_Witness ==
    /\ llm.pc = "raised"
    /\ llm.requests = max_retries
    /\ llm.outcomes[1].kind = "timeout"
    /\ llm.outcomes[2].kind = "reqexc"
    /\ llm.outcomes[3].kind = "status" /\ llm.outcomes[3].status = 503

\* The texts that report the failure of one attempt.
AttemptErrorTexts(o) ==
    CASE o.kind = "timeout" -> {TimeoutErrorText}
      [] o.kind = "reqexc" -> {RequestErrorText(o.text)}
      [] Is200(o) -> {RequestErrorText(BodyJsonErrorText)}
      [] OTHER -> {OtherErrorText(o), "Rate limit (429)"}

\* C4: when the call fails with its retries exhausted, the exception it raises
\* carries the error text of the last failed attempt, whatever kind of
\* transient failure that attempt was.
C4_LastErrorCarried ==
    (llm.pc = "raised" /\ llm.requests = max_retries
        /\ IsTransient(llm.outcomes[max_retries])) =>
        \E t \in AttemptErrorTexts(llm.outcomes[max_retries]) :
            llm.exc \in {t, ExhaustedErrorText(t)}

\* C5: the first 200 ends the call: no request and no sleep follows it, and
\* the call has returned the verdict or raised.
C5_First200Ends ==
    \A k \in 1..Len(llm.outcomes) :
        Is200(llm.outcomes[k]) =>
            /\ k = Len(llm.outcomes)
            /\ Terminated(llm)
            /\ llm.trace[Len(llm.trace)] = [ev |-> "request", n |-> k]

(***************************************************************************)
(* Properties of analyze() (Spec).                                         *)
(***************************************************************************)
\* The calendar dates of the parsable timestamps of the loaded series.
SeriesDates == {t.ymd : t \in {u \in weatherFile.hourly : u.ok}}

\* Days since a fixed origin, up to a constant: the chronological order.
Ordinal(ymd) == ymd[1] * 372 + ymd[2] * 31 + ymd[3]

Min(a, b) == IF a < b THEN a ELSE b

Started == run.pc \in {"days", "notify", "return", "done"}

\* C6: analyze() returns one verdict per target date; a day whose prompt
\* building or LLM call raised does not stop the batch, and its entry is the
\* synthetic verdict: not flyable, rating 0, confidence 0, DANGEROUS, the
\* error text in details.risks.
C6_OneVerdictPerDay ==
    /\ run.pc = "raised" => run.trace = <<>>
    /\ run.pc = "days" => Len(run.results) = run.i - 1
    /\ run.pc \in {"notify", "return", "done"} =>
          Len(run.results) = Len(run.sorted_dates)
    /\ run.pc = "done" => Len(run.returned) = Len(run.sorted_dates)
    /\ \A k \in 1..Len(run.results) :
          run.dayErrors[k] # "" =>
             /\ run.results[k].flyable = FALSE
             /\ run.results[k].rating = 0
             /\ run.results[k].confidence = 0
             /\ run.results[k].conditions = "DANGEROUS"
             /\ run.results[k].details.risks = JStr("Systemfehler: " \o run.dayErrors[k])
             /\ run.results[k].date = JStr(run.sorted_dates[k])

C6_Witness ==
    /\ run.pc = "done"
    /\ Len(run.returned) = FORECAST_DAYS
    /\ run.dayErrors[1] # ""
    /\ run.dayErrors[2] = ""
    /\ run.dayErrors[3] = PromptErrorText

\* C7: the target dates are the first FORECAST_DAYS dates of the series in
\* ascending chronological order; the verdicts come in that order and the
\* k-th verdict carries the k-th target date, whatever date the model wrote.
C7_TargetDates ==
    Started =>
        /\ Len(run.sorted_dates) = Min(FORECAST_DAYS, Cardinality(SeriesDates))
        /\ \A k \in 1..Len(run.sorted_dates) :
              \E d \in SeriesDates :
                 /\ run.sorted_dates[k] = DateKey(d)
                 /\ Cardinality({e \in SeriesDates : Ordinal(e) < Ordinal(d)}) = k - 1
        /\ \A k \in 1..Len(run.results) : run.results[k].date = JStr(run.sorted_dates[k])
        /\ run.pc = "done" => run.returned = run.results

C7_Witness ==
    /\ run.pc = "done"
    /\ Cardinality(SeriesDates) > FORECAST_DAYS
    /\ Len(run.returned) = FORECAST_DAYS
    /\ run.dayErrors[2] = ""
    /\ run.returned[2].date = JStr("2025-12-31")

\* C8: after a run whose save succeeded the evaluations file holds exactly
\* that run's verdicts, in order, nothing of an earlier batch, and reloading
\* the file gives the verdict list the run returns.
C8_FileIsTheBatch ==
    run.saved = "ok" =>
        /\ evalFile.exists /\ evalFile.complete
        /\ Len(evalFile.evaluations) = Len(run.results)
        /\ evalFile.evaluations = DumpResults(run.results)
        /\ LoadEvaluations(evalFile) = run.results
        /\ run.pc = "done" => LoadEvaluations(evalFile) = run.returned

C8_Witness ==
    /\ run.saved = "ok"
    /\ run.pc = "done"
    /\ run.fileBefore = OldBatch
    /\ Len(run.returned) = FORECAST_DAYS
    /\ run.dayErrors[1] = ""
    /\ run.dayErrors[2] # ""

\* C9: the save is attempted only after every target day was processed and
\* the notifier hand-off only after the save attempt; a failed save is not
\* propagated: the hand-off is attempted as after a successful save, and the
\* run returns the verdict list it had before the save.
C9_SaveThenNotify ==
    /\ \A p \in 1..Len(run.trace) :
          /\ run.trace[p] = "day" => p <= Len(run.sorted_dates)
          /\ run.trace[p] = "save" => p = Len(run.sorted_dates) + 1
          /\ run.trace[p] = "notify" => p = Len(run.sorted_dates) + 2
    /\ run.saved # "none" =>
          /\ run.pc \in {"notify", "return", "done"}
          /\ run.results = run.resultsAtSave
          /\ Len(run.resultsAtSave) = Len(run.sorted_dates)
          /\ run.pc \in {"return", "done"} =>
                (run.email_notifier <=> run.trace[Len(run.trace)] = "notify")
          /\ run.pc = "done" => run.returned = run.resultsAtSave

C9_Witness ==
    /\ run.pc = "done"
    /\ run.saved = "dump_failed"
    /\ run.email_notifier
    /\ run.trace = <<"day", "day", "save", "notify">>
    /\ run.returned # <<>>

(***************************************************************************)
(* Properties of load_weather_data (SpecCache).                            *)
(***************************************************************************)
\* C10: a call that finds a cached series younger than CACHE_DURATION returns
\* that series without reading a file or calling the fetcher; at an age of
\* CACHE_DURATION or more the call never answers from the cache.
C10_FastPath ==
    load.pc # "idle" =>
        /\ (~load.cacheBefore.none /\ load.age < CACHE_DURATION) =>
              /\ load.pc = "returned"
              /\ load.path = "cache"
              /\ load.fileReads = 0
              /\ load.fetchCalls = 0
              /\ load.result.version = load.cacheBefore.version
        /\ load.age >= CACHE_DURATION => load.path # "cache"

C10_Witness ==
    /\ load.path = "cache"
    /\ load.age = CACHE_DURATION - 1
    /\ load.result.version < weatherFile.version

\* The persisted file yields the site's series: it exists, parses and has the key.
FileGood(file) == file.exists /\ file.parsable /\ file.hasSite

\* What one call of load_weather_data must have done, from the state before it.
C11_Post ==
    LET fresh == ~CACHED_WEATHER_DATA.none /\ now - LAST_FETCH_TIME < CACHE_DURATION
        good == FileGood(weatherFile)
    IN /\ load'.path = "cache" <=> fresh
       /\ load'.path = "file" <=> (~fresh /\ good)
       /\ load'.path = "live" =>
             /\ ~fresh /\ ~good /\ load'.fetcher
             /\ load'.fetchCalls = 1
             /\ load'.fileReads = (IF weatherFile.exists THEN 1 ELSE 0)
       /\ load'.path = "file" => load'.fileReads = 1 /\ load'.fetchCalls = 0
       /\ load'.path \in {"file", "live"} =>
             /\ load'.pc = "returned"
             /\ CACHED_WEATHER_DATA' = load'.result
             /\ ~load'.result.none
             /\ LAST_FETCH_TIME' = now
       /\ load'.path = "file" => load'.result.version = weatherFile.version
       /\ load'.path = "live" => load'.result.version = weatherFile'.version
       /\ load'.pc = "raised" <=> load'.path = "none"
       /\ load'.pc = "raised" =>
             /\ ~fresh /\ ~good
             /\ load'.fetchCalls = (IF load'.fetcher THEN 1 ELSE 0)
             /\ CACHED_WEATHER_DATA' = CACHED_WEATHER_DATA
             /\ LAST_FETCH_TIME' = LAST_FETCH_TIME

\* C11: load_weather_data tries the memory cache, then the persisted file, then
\* the live fetch, each only when the earlier ones gave no series; a series
\* from the file or the live fetch is stored in the cache stamped with the
\* call's current time; when all three fail the call raises.
C11_SourceOrder == [][LoadWeatherData => C11_Post]_vars

C11_Witness ==
    /\ load.pc = "returned"
    /\ load.path = "live"
    /\ load.fileReads = 1
    /\ ~load.cacheBefore.none
    /\ load.age >= CACHE_DURATION
    /\ CACHED_WEATHER_DATA = load.result
    /\ LAST_FETCH_TIME = load.at

(***************************************************************************)
(* SpecWeb: the evaluation read path of the dashboard, /api/evaluation and *)
(* get_evaluation_data, next to a batch run that rewrites the evaluations  *)
(* file.  analyze() runs inside the request, so the request is one step.   *)
(***************************************************************************)
\* The loop of lines 91-95 run to its end: calls[i] is the finished LLM call of day i.
RECURSIVE RunDays(_, _)
RunDays(r, calls) ==
    IF r.i > Len(r.sorted_dates) THEN r ELSE RunDays(DayDone(r, calls[r.i]), calls)

SaveOutcomes == {"ok", "open_failed", "dump_failed"}

\* analyze(), one whole run: what it returns and the file it leaves.
analyze(weather, file, calls, save) ==
    IF LoadWeatherRaises(weather)
    THEN [raised |-> TRUE, results |-> <<>>, file |-> file, saved |-> "none"]
    ELSE LET r0 == [RunStart(FALSE) EXCEPT !.pc = "days",
                                           !.sorted_dates = TargetDates(weather.hourly)]
             r == RunDays(r0, calls)
         IN IF r.results = <<>>
            THEN [raised |-> FALSE, results |-> <<>>, file |-> file, saved |-> "none"]
            ELSE [raised |-> FALSE, results |-> r.results, saved |-> save,
                  file |-> CASE save = "ok" ->
                                  save_evaluations_to_json(file, r.results, r.clock)
                             [] save = "open_failed" -> file
                             [] OTHER -> TornFile(r.results, Len(r.results) - 1, r.clock)]

\* The finished LLM calls of the days of an on-demand run: every day answered,
\* some days failing, every day failing.
DayCalls ==
    LET answered == RunCall(CallStart, <<StatusOutcome(200, "", "full", TRUE, "")>>)
        refused == RunCall(CallStart,
                           <<StatusOutcome(401, "Unauthorized", "empty", TRUE, "")>>)
    IN {[i \in 1..FORECAST_DAYS |-> answered],
        [i \in 1..FORECAST_DAYS |-> IF i = 1 THEN answered
                                    ELSE IF i = 2 THEN refused ELSE PromptFailed],
        [i \in 1..FORECAST_DAYS |-> PromptFailed]}

EmptyDict == [d \in {} |-> NoVerdict]

\* Lines 353-357: evaluations_by_date[date] = result, for each result with a date.
EvaluationsByDate(list) ==
    LET dated == {i \in 1..Len(list) :
                    "date" \in DOMAIN list[i] /\ PyBool(list[i].date)}
        last(d) == CHOOSE i \in dated :
                      /\ list[i].date.s = d
                      /\ \A j \in dated : list[j].date.s = d => j <= i
    IN [d \in {list[i].date.s : i \in dated} |-> list[last(d)]]

\* Faulty variant: a file that cannot be parsed lets the exception out.
ReadEvaluationsRaises(present, file) ==
    IF ~present THEN [raised |-> FALSE, reads |-> 0, result |-> EmptyDict]
    ELSE IF ~file.complete THEN [raised |-> TRUE, reads |-> 1, result |-> EmptyDict]
    ELSE [raised |-> FALSE, reads |-> 1,
          result |-> EvaluationsByDate(LoadEvaluations(file))]

\* Lines 339-363: the file is read once; present: evaluations_file is set and exists.
ReadEvaluations(present, file) ==
    IF ~present THEN [raised |-> FALSE, reads |-> 0, result |-> EmptyDict]
    ELSE IF ~file.complete THEN [raised |-> FALSE, reads |-> 1, result |-> EmptyDict]
    ELSE [raised |-> FALSE, reads |-> 1,
          result |-> EvaluationsByDate(LoadEvaluations(file))]

\* Faulty variant: after the on-demand run the new file is not read.
get_evaluation_dataNoReload(c, file, inp) ==
    LET miss == ~file.exists /\ ~inp.data_file.exists
        found == IF file.exists THEN file ELSE inp.data_file
        w == load_weather_data(c, inp.fetched)
        ran == miss /\ w.log.pc = "returned" /\ w.file.exists /\ inp.api_key
        a == analyze(w.file, file, inp.calls, inp.save)
        fileAfter == IF ran THEN a.file ELSE file
        rd == ReadEvaluations(~miss /\ found.exists, found)
    IN [cache |-> IF miss THEN w.cache ELSE c.cache,
        last |-> IF miss THEN w.last ELSE c.last,
        weather |-> IF miss THEN w.file ELSE c.file,
        loadLog |-> IF miss THEN w.log ELSE inp.loadLog,
        file |-> fileAfter,
        log |-> [pc |-> IF rd.raised THEN "raised" ELSE "returned",
                 result |-> rd.result, reads |-> rd.reads, miss |-> miss,
                 analyzeRuns |-> IF ran THEN 1 ELSE 0,
                 batch |-> IF ran THEN a.results ELSE <<>>,
                 saved |-> IF ran THEN a.saved ELSE "none",
                 fileBefore |-> file, fileAfter |-> fileAfter,
                 found |-> IF file.exists THEN "tmp"
                           ELSE IF inp.data_file.exists THEN "data" ELSE "none"]]

\* Faulty variant: only the file in /tmp counts when deciding to regenerate.
get_evaluation_dataTmpOnly(c, file, inp) ==
    LET miss == ~file.exists
        found == IF file.exists THEN file ELSE inp.data_file
        w == load_weather_data(c, inp.fetched)
        ran == miss /\ w.log.pc = "returned" /\ w.file.exists /\ inp.api_key
        a == analyze(w.file, file, inp.calls, inp.save)
        fileAfter == IF ran THEN a.file ELSE file
        isSet == IF miss THEN ran /\ ~a.raised /\ a.results # <<>> ELSE TRUE
        evaluations_file == IF miss THEN fileAfter ELSE found
        rd == ReadEvaluations(isSet /\ evaluations_file.exists, evaluations_file)
    IN [cache |-> IF miss THEN w.cache ELSE c.cache,
        last |-> IF miss THEN w.last ELSE c.last,
        weather |-> IF miss THEN w.file ELSE c.file,
        loadLog |-> IF miss THEN w.log ELSE inp.loadLog,
        file |-> fileAfter,
        log |-> [pc |-> IF rd.raised THEN "raised" ELSE "returned",
                 result |-> rd.result, reads |-> rd.reads, miss |-> miss,
                 analyzeRuns |-> IF ran THEN 1 ELSE 0,
                 batch |-> IF ran THEN a.results ELSE <<>>,
                 saved |-> IF ran THEN a.saved ELSE "none",
                 fileBefore |-> file, fileAfter |-> fileAfter,
                 found |-> IF file.exists THEN "tmp"
                           ELSE IF inp.data_file.exists THEN "data" ELSE "none"]]

\* get_evaluation_data, one call: c is the weather read path's state, file the
\* evaluations file in /tmp (where analyze() saves), inp.data_file the one
\* under data/, inp what the environment does during the call.
get_evaluation_data(c, file, inp) ==
    LET miss == ~file.exists /\ ~inp.data_file.exists
        found == IF file.exists THEN file ELSE inp.data_file
        w == load_weather_data(c, inp.fetched)
        ran == miss /\ w.log.pc = "returned" /\ w.file.exists /\ inp.api_key
        a == analyze(w.file, file, inp.calls, inp.save)
        fileAfter == IF ran THEN a.file ELSE file
        isSet == IF miss THEN ran /\ ~a.raised /\ a.results # <<>> ELSE TRUE
        evaluations_file == IF miss THEN fileAfter ELSE found
        rd == ReadEvaluations(isSet /\ evaluations_file.exists, evaluations_file)
    IN [cache |-> IF miss THEN w.cache ELSE c.cache,
        last |-> IF miss THEN w.last ELSE c.last,
        weather |-> IF miss THEN w.file ELSE c.file,
        loadLog |-> IF miss THEN w.log ELSE inp.loadLog,
        file |-> fileAfter,
        log |-> [pc |-> IF rd.raised THEN "raised" ELSE "returned",
                 result |-> rd.result, reads |-> rd.reads, miss |-> miss,
                 analyzeRuns |-> IF ran THEN 1 ELSE 0,
                 batch |-> IF ran THEN a.results ELSE <<>>,
                 saved |-> IF ran THEN a.saved ELSE "none",
                 fileBefore |-> file, fileAfter |-> fileAfter,
                 found |-> IF file.exists THEN "tmp"
                           ELSE IF inp.data_file.exists THEN "data" ELSE "none"]]

\* api_evaluation: the JSON answer and its status code.
api_evaluation(g) ==
    IF g.pc = "raised" THEN [success |-> FALSE, status |-> 500, error |-> "exception"]
    ELSE IF g.result # EmptyDict THEN [success |-> TRUE, status |-> 200, error |-> ""]
    ELSE [success |-> FALSE, status |-> 404, error |-> "Keine Auswertung verfuegbar"]

\* The hourly series the weather file may hold in SpecWeb.
WebSeries == {{}, {BadStamp}, {Stamp(<<2025, 12, 31>>, 12)}, StampPool}

\* The verdicts of a batch run that goes on next to the requests.
CronBatch ==
    analyze(WeatherFile(TRUE, TRUE, TRUE, 1, StampPool), NoFile,
            [i \in 1..FORECAST_DAYS |->
                RunCall(CallStart, <<StatusOutcome(200, "", "full", TRUE, "")>>)],
            "ok").results

\* data/evaluations.json, the second place get_evaluation_data looks in:
\* absent, a batch shipped with the project, or a text that is no JSON.
DataFiles == {NoFile, OldBatch, [OldBatch EXCEPT !.complete = FALSE]}

OtherVarsWeb == <<llm, now, calc>>

\* Inputs the call does not look at are not varied.
Unused(cond, inputs, fixed) == cond => inputs = fixed

\* GET /api/evaluation: get_evaluation_data and the answer built from it.
ApiEvaluation ==
    /\ \E fetched \in FetchOutcomes, api_key \in BOOLEAN, save \in SaveOutcomes,
          calls \in DayCalls :
          \E g \in {get_evaluation_data(CacheState, evalFile,
                       [fetched |-> fetched, api_key |-> api_key, save |-> save,
                        calls |-> calls, loadLog |-> load,
                        data_file |-> web.data_file])} :
             /\ Unused(~g.log.miss, <<fetched, api_key>>, <<"raises", FALSE>>)
             /\ Unused(~g.log.miss \/ ~api_key, <<save, calls>>,
                       <<"ok", [i \in 1..FORECAST_DAYS |-> PromptFailed]>>)
             /\ g.weather.version <= MaxVersion
             /\ CACHED_WEATHER_DATA' = g.cache
             /\ LAST_FETCH_TIME' = g.last
             /\ weatherFile' = g.weather
             /\ load' = g.loadLog
             /\ evalFile' = g.file
             /\ \E log \in {g.log} :
                   web' = [pc |-> "answered", call |-> log,
                           response |-> api_evaluation(log),
                           data_file |-> web.data_file]
    /\ UNCHANGED run
    /\ UNCHANGED OtherVarsWeb

\* A batch run reaches open(evaluations_file, 'w'): the file is truncated and
\* holds the part of the JSON text written so far.
BatchWriteBegin ==
    /\ run.pc = "idle"
    /\ run' = [run EXCEPT !.pc = "writing", !.results = CronBatch]
    /\ \E n \in 0..(Len(CronBatch) - 1) : evalFile' = TornFile(CronBatch, n, 2)
    /\ UNCHANGED <<weatherFile, CACHED_WEATHER_DATA, LAST_FETCH_TIME, load, web>>
    /\ UNCHANGED OtherVarsWeb

\* json.dump finished and the file was closed.
BatchWriteEnd ==
    /\ run.pc = "writing"
    /\ run' = [run EXCEPT !.pc = "idle", !.results = <<>>]
    /\ evalFile' = save_evaluations_to_json(evalFile, run.results, 2)
    /\ UNCHANGED <<weatherFile, CACHED_WEATHER_DATA, LAST_FETCH_TIME, load, web>>
    /\ UNCHANGED OtherVarsWeb

\* json.dump raised: the file stays as far as it was written.
BatchWriteFails ==
    /\ run.pc = "writing"
    /\ run' = [run EXCEPT !.pc = "idle", !.results = <<>>]
    /\ UNCHANGED <<evalFile, weatherFile, CACHED_WEATHER_DATA, LAST_FETCH_TIME, load, web>>
    /\ UNCHANGED OtherVarsWeb

\* The ephemeral storage was cleared.
EvalFileLost ==
    /\ run.pc = "idle"
    /\ evalFile.exists
    /\ evalFile' = NoFile
    /\ UNCHANGED <<run, weatherFile, CACHED_WEATHER_DATA, LAST_FETCH_TIME, load, web>>
    /\ UNCHANGED OtherVarsWeb

InitWeb ==
    /\ llm = CallIdle
    /\ run = RunIdle
    /\ evalFile \in {NoFile, OldBatch}
    /\ weatherFile \in
        {NoWeatherFile} \cup {WeatherFile(TRUE, TRUE, TRUE, 1, h) : h \in WebSeries}
    /\ CACHED_WEATHER_DATA = None
    /\ LAST_FETCH_TIME = 0
    /\ now = 0
    /\ \E f \in BOOLEAN :
          load = [LoadLog("idle", "none", None, 0, 0,
                          [now |-> 0, last |-> 0, cache |-> None, fetcher |-> f])
                  EXCEPT !.fetcher = f]
    /\ \E f \in DataFiles : web = [pc |-> "idle", data_file |-> f]
    /\ calc = [fn |-> "none"]

NextWeb ==
    \/ ApiEvaluation
    \/ BatchWriteBegin
    \/ BatchWriteEnd
    \/ BatchWriteFails
    \/ EvalFileLost
    \/ WeatherFileLost

SpecWeb == InitWeb /\ [][NextWeb]_vars

(***************************************************************************)
(* Properties of get_evaluation_data and /api/evaluation (SpecWeb).        *)
(***************************************************************************)
\* The on-demand run of the last request wrote its batch to the file.
Regenerated(g) == g.miss /\ g.analyzeRuns = 1 /\ g.batch # <<>> /\ g.saved = "ok"

\* The batch as the dashboard gets it: each verdict under its date.
KeyedByDate(batch) ==
    [d \in {batch[i].date.s : i \in 1..Len(batch)} |->
        batch[CHOOSE i \in 1..Len(batch) : batch[i].date.s = d]]

ReadTorn(g) ==
    \/ g.fileBefore.exists /\ ~g.fileBefore.complete
    \/ g.miss /\ g.analyzeRuns = 1 /\ g.batch # <<>> /\ g.saved = "dump_failed"

\* C13: a request that reads an evaluations file which is unparsable or only
\* partly written does not raise: get_evaluation_data returns the empty
\* result and /api/evaluation answers success=false, "no evaluation
\* available", not an exception.
C13_TornReadIsEmpty ==
    (web.pc = "answered" /\ ReadTorn(web.call)) =>
        /\ web.call.pc = "returned"
        /\ web.call.reads = 1
        /\ web.call.result = EmptyDict
        /\ web.response = [success |-> FALSE, status |-> 404,
                           error |-> "Keine Auswertung verfuegbar"]

C13_Witness ==
    /\ web.pc = "answered"
    /\ run.pc = "writing"
    /\ web.call.fileBefore.exists
    /\ ~web.call.fileBefore.complete
    /\ Len(web.call.fileBefore.evaluations) > 0
    /\ web.call.reads = 1
    /\ web.response.status = 404

(***************************************************************************)
(* SpecParse: _parse_llm_response applied to the JSON objects a model may  *)
(* answer with, and applied again to the verdict it produced.              *)
(***************************************************************************)
FlyableValues == {Absent, JBool(TRUE), JNum(0)}

RatingValues == {Absent, JNum(7), JNum(11), JNum(-3), JStr("7"), JStr("high")}

ConfidenceValues == {Absent, JNum(7), JNull}

ConditionsValues == {Absent, JStr("GOOD"), JStr("good"), JStr("SUNNY")}

SummaryValues == {Absent, JStr("llm summary")}

RecommendationValues == {Absent, JStr("llm recommendation")}

\* 'details': missing, not an object, or an object with any subset of the texts.
DetailsValues ==
    {[hasDetails |-> FALSE, details |-> NoDetails],
     [hasDetails |-> TRUE, details |-> NoDetails]}
    \cup {[hasDetails |-> TRUE,
           details |-> [isDict |-> TRUE, wind |-> w, thermik |-> t, risks |-> r]] :
            w \in {Absent, JStr("llm wind")}, t \in {Absent, JStr("llm thermik")},
            r \in {Absent, JStr("llm risks")}}

HourlyDict(hour, timestamp, conditions, flyable, rating, reason) ==
    [isDict |-> TRUE, hour |-> hour, timestamp |-> timestamp, conditions |-> conditions,
     flyable |-> flyable, rating |-> rating, reason |-> reason]

HourlyNotDict == [HourlyDict(Absent, Absent, Absent, Absent, Absent, Absent)
                  EXCEPT !.isDict = FALSE]

\* 'hourly_evaluations': missing or not a list, or one of these lists.
HourlyValues ==
    {[hourlyIsList |-> FALSE, hourly |-> <<>>],
     [hourlyIsList |-> TRUE, hourly |-> <<>>],
     [hourlyIsList |-> TRUE,
      hourly |-> <<HourlyDict(Absent, Absent, Absent, Absent, Absent, Absent)>>],
     [hourlyIsList |-> TRUE,
      hourly |-> <<HourlyNotDict,
                   HourlyDict(JNum(9), Absent, JStr("good"), JBool(TRUE), JNum(7), Absent)>>],
     [hourlyIsList |-> TRUE,
      hourly |-> <<HourlyDict(JStr("7"), JStr("2026-01-01T09:00"), JNull, JNum(0),
                              JNum(11), JStr("calm")),
                   HourlyNotDict>>],
     [hourlyIsList |-> TRUE,
      hourly |-> <<HourlyDict(JNull, Absent, JStr("GOOD"), Absent, Absent, Absent)>>]}

\* The JSON objects json.loads(content) may give.
ParseInputs ==
    {[json |-> TRUE, flyable |-> f, rating |-> r, confidence |-> c, conditions |-> k,
      summary |-> s, recommendation |-> e, hasDetails |-> d.hasDetails,
      details |-> d.details, hourlyIsList |-> h.hourlyIsList, hourly |-> h.hourly,
      date |-> Absent] :
        f \in FlyableValues, r \in RatingValues, c \in ConfidenceValues,
        k \in ConditionsValues, s \in SummaryValues, e \in RecommendationValues,
        d \in DetailsValues, h \in HourlyValues}

\* The verdict as the dict a second pass of the normalization gets.
AsContent(v) ==
    [json |-> TRUE, flyable |-> JBool(v.flyable), rating |-> JNum(v.rating),
     confidence |-> JNum(v.confidence), conditions |-> JStr(v.conditions),
     summary |-> v.summary, recommendation |-> v.recommendation,
     hasDetails |-> TRUE,
     details |-> [isDict |-> TRUE, wind |-> v.details.wind,
                  thermik |-> v.details.thermik, risks |-> v.details.risks],
     hourlyIsList |-> TRUE,
     hourly |-> [i \in 1..Len(v.hourly_evaluations) |->
                    LET h == v.hourly_evaluations[i]
                    IN HourlyDict(JNum(h.hour), JStr(h.timestamp), JStr(h.conditions),
                                  JBool(h.flyable), JNum(h.rating), JStr(h.reason))],
     date |-> v.date]

\* One application of lines 415-459 to the dict c.
Normalize(c) ==
    IF ParseRaises(c)
    THEN [raised |-> TRUE, exc |-> ParseErrorText(c), verdict |-> NoVerdict]
    ELSE [raised |-> FALSE, exc |-> "", verdict |-> parse_llm_response(c)]

OtherVarsCalc ==
    <<llm, run, evalFile, CACHED_WEATHER_DATA, LAST_FETCH_TIME, now, weatherFile,
      load, web>>

ParseResponse ==
    /\ calc.fn = "parse"
    /\ calc.stage = "input"
    /\ calc' = [calc EXCEPT !.stage = "parsed", !.first = Normalize(calc.input)]
    /\ UNCHANGED OtherVarsCalc

ParseAgain ==
    /\ calc.fn = "parse"
    /\ calc.stage = "parsed"
    /\ ~calc.first.raised
    /\ calc' = [calc EXCEPT !.stage = "reparsed",
                            !.second = Normalize(AsContent(calc.first.verdict))]
    /\ UNCHANGED OtherVarsCalc

NotStarted == [raised |-> FALSE, exc |-> "", verdict |-> NoVerdict]

InitParse ==
    /\ llm = CallIdle
    /\ run = RunIdle
    /\ evalFile = NoFile
    /\ weatherFile = NoWeatherFile
    /\ CACHED_WEATHER_DATA = [none |-> TRUE]
    /\ LAST_FETCH_TIME = 0
    /\ now = 0
    /\ load = [pc |-> "idle", fetcher |-> FALSE]
    /\ web = [pc |-> "idle"]
    /\ \E c \in ParseInputs :
          calc = [fn |-> "parse", stage |-> "input", input |-> c,
                  first |-> NotStarted, second |-> NotStarted]

NextParse ==
    \/ ParseResponse
    \/ ParseAgain

SpecParse == InitParse /\ [][NextParse]_vars

(***************************************************************************)
(* Properties of _parse_llm_response (SpecParse).                          *)
(***************************************************************************)
Placeholder == JStr("Nicht verfuegbar")

VerdictKeys ==
    {"flyable", "rating", "confidence", "conditions", "summary", "recommendation",
     "details", "hourly_evaluations"}

\* A value the model did supply that int() does not accept.
SuppliedBadInt(c) ==
    \/ c.rating # Absent /\ PyIntRaises(c.rating)
    \/ c.confidence # Absent /\ PyIntRaises(c.confidence)
    \/ /\ c.hourlyIsList
       /\ \E i \in 1..Len(c.hourly) :
             /\ c.hourly[i].isDict
             /\ \/ c.hourly[i].hour # Absent /\ PyIntRaises(c.hourly[i].hour)
                \/ c.hourly[i].rating # Absent /\ PyIntRaises(c.hourly[i].rating)

\* C14: for a JSON object with any subset of its fields omitted the returned
\* verdict has every field, each omitted one at its default (false, 0, 0,
\* UNKNOWN, the placeholder texts, the empty list) and each detail text the
\* model supplied unchanged; an omitted field never makes the call raise.
C14_DefaultsFilled ==
    (calc.fn = "parse" /\ calc.stage # "input") =>
        LET c == calc.input
            v == calc.first.verdict
        IN /\ calc.first.raised => SuppliedBadInt(c)
           /\ ~calc.first.raised =>
                 /\ VerdictKeys \subseteq DOMAIN v
                 /\ c.flyable = Absent => v.flyable = FALSE
                 /\ c.rating = Absent => v.rating = 0
                 /\ c.confidence = Absent => v.confidence = 0
                 /\ c.conditions = Absent => v.conditions = "UNKNOWN"
                 /\ c.summary = Absent =>
                       v.summary = JStr("Keine Zusammenfassung verfuegbar")
                 /\ c.recommendation = Absent =>
                       v.recommendation = JStr("Keine Empfehlung verfuegbar")
                 /\ \A key \in {"wind", "thermik", "risks"} :
                       IF c.hasDetails /\ c.details.isDict /\ c.details[key] # Absent
                       THEN v.details[key] = c.details[key]
                       ELSE v.details[key] = Placeholder
                 /\ ~c.hourlyIsList => v.hourly_evaluations = <<>>

C14_Witness ==
    /\ calc.fn = "parse"
    /\ calc.stage = "parsed"
    /\ ~calc.first.raised
    /\ calc.input.flyable = Absent
    /\ calc.input.rating = Absent
    /\ calc.input.conditions = Absent
    /\ calc.input.details.isDict
    /\ calc.input.details.thermik = Absent
    /\ calc.first.verdict.details.wind = JStr("llm wind")
    /\ calc.first.verdict.details.thermik = Placeholder
    /\ calc.first.verdict.flyable = FALSE

\* C15: normalizing a verdict the normalization produced gives the identical
\* verdict, every field and every entry of hourly_evaluations included.
C15_Idempotent ==
    (calc.fn = "parse" /\ calc.stage = "reparsed") =>
        /\ ~calc.second.raised
        /\ calc.second.verdict = calc.first.verdict

C15_Witness ==
    /\ calc.fn = "parse"
    /\ calc.stage = "reparsed"
    /\ Len(calc.first.verdict.hourly_evaluations) = 1
    /\ calc.first.verdict.hourly_evaluations[1].conditions = "NONE"
    /\ calc.input.conditions = JStr("good")
    /\ calc.input.rating = JStr("7")
    /\ calc.second.verdict = calc.first.verdict

ConditionsEnum == {"EXCELLENT", "GOOD", "MODERATE", "POOR", "DANGEROUS", "UNKNOWN"}

\* C16: every verdict that leaves the normalization has rating and confidence
\* within 0..10 and conditions in the closed set, whatever the model returned.
C16_RangesEnforced ==
    (calc.fn = "parse" /\ calc.stage # "input" /\ ~calc.first.raised) =>
        /\ calc.first.verdict.rating \in 0..10
        /\ calc.first.verdict.confidence \in 0..10
        /\ calc.first.verdict.conditions \in ConditionsEnum

(***************************************************************************)
(* SpecFetch: the forecast fetcher.  A response of the forecast API:       *)
(*   kind "transport"  requests.get raised (connection, timeout)           *)
(*   kind "http"       raise_for_status raised on the status code          *)
(*   kind "not_json"   response.json() raised                              *)
(*   kind "ok"         a JSON object; hasHourly/hasTime: the keys 'hourly' *)
(*                     and 'time' are there, arrays[p]: the array of p     *)
(* The code treats its eleven hourly parameters alike; two are kept.       *)
(***************************************************************************)
hourly_params == {"temperature_2m", "cloud_base"}

T09 == "2026-01-01T09:00"

T10 == "2026-01-01T10:00"

T11 == "2026-01-01T11:00"

MaxArrayLen == 3

\* hourly.get(p, []): the key is missing, or holds this array.
NoArray == [present |-> FALSE, arr |-> <<>>]

Array(arr) == [present |-> TRUE, arr |-> arr]

Body(hasHourly, hasTime, time, arrays) ==
    [kind |-> "ok", hasHourly |-> hasHourly, hasTime |-> hasTime, time |-> time,
     arrays |-> arrays]

FailedResponse(kind) ==
    [kind |-> kind, hasHourly |-> FALSE, hasTime |-> FALSE, time |-> <<>>,
     arrays |-> [p \in hourly_params |-> NoArray]]

\* The time arrays of the responses; the last one repeats a timestamp.
TimeArrays == {<<>>, <<T09>>, <<T09, T10>>, <<T10, T11>>, <<T09, T10, T11>>, <<T09, T09>>}

\* Arrays of any length up to MaxArrayLen, null entries included.
ValueArrays(values) ==
    {NoArray} \cup
    {Array(a) : a \in UNION {[1..n -> values \cup {JNull}] : n \in 0..MaxArrayLen}}

\* Faulty variant: the element after the timestamp's index is taken.
ValueAtNext(a, i) == IF i + 1 <= Len(a.arr) THEN a.arr[i + 1] ELSE JNull

\* "x[i] if i < len(x) else None", x = hourly.get(p, []); i counts from 1 here.
ValueAt(a, i) == IF i <= Len(a.arr) THEN a.arr[i] ELSE JNull

\* Faulty variant: the first entry of a repeated timestamp is the one kept.
FirstIndex(time, t) ==
    CHOOSE i \in 1..Len(time) : time[i] = t /\ \A j \in 1..Len(time) : time[j] = t => i <= j

\* hourly_data[time_str] = {...} in a loop: the last index of a timestamp wins.
LastIndex(time, t) ==
    CHOOSE i \in 1..Len(time) : time[i] = t /\ \A j \in 1..Len(time) : time[j] = t => j <= i

\* Lines 146-160: the dict timestamp -> record of the parameters.
hourly_data(body) ==
    [t \in {body.time[i] : i \in 1..Len(body.time)} |->
        [p \in hourly_params |-> ValueAt(body.arrays[p], LastIndex(body.time, t))]]

NoData == [none |-> TRUE, raised |-> FALSE, requests |-> 1]

\* Faulty variant: a failed request is tried once more and then raises.
get_temperature_forecast_for_locationRetry(response) ==
    IF response.kind # "ok"
    THEN [none |-> TRUE, raised |-> TRUE, requests |-> 2]
    ELSE IF ~response.hasHourly \/ ~response.hasTime \/ response.time = <<>>
    THEN NoData
    ELSE [none |-> FALSE, raised |-> FALSE, requests |-> 1,
          hourly_data |-> hourly_data(response)]

\* get_temperature_forecast_for_location: one requests.get; every exception is
\* caught and the function then returns None, as it does for no time entries.
get_temperature_forecast_for_location(response) ==
    IF response.kind # "ok"
    THEN NoData
    ELSE IF ~response.hasHourly \/ ~response.hasTime \/ response.time = <<>>
    THEN NoData
    ELSE [none |-> FALSE, raised |-> FALSE, requests |-> 1,
          hourly_data |-> hourly_data(response)]

\* The hybrid merge: start from the fallback model's series and, at each
\* timestamp the primary model has too, take every non-null primary value.
merge_models(primary, fallback) ==
    [t \in DOMAIN fallback |->
        [p \in hourly_params |->
            IF t \in DOMAIN primary /\ primary[t][p] # JNull
            THEN primary[t][p]
            ELSE fallback[t][p]]]

\* The responses of a single-model fetch.
SingleResponses ==
    {FailedResponse(k) : k \in {"transport", "http", "not_json"}}
    \cup {Body(FALSE, FALSE, <<>>, [p \in hourly_params |-> NoArray]),
          Body(TRUE, FALSE, <<>>, [p \in hourly_params |-> Array(<<JNum(5)>>)])}
    \cup {Body(TRUE, TRUE, time, arrays) :
            time \in TimeArrays, arrays \in [hourly_params -> ValueArrays({JNum(5)})]}

\* The arrays of one model in a hybrid fetch: v is a value only that model gives.
ModelArrays(v) ==
    {NoArray, Array(<<>>), Array(<<JNum(v)>>), Array(<<JNull, JNum(v)>>),
     Array(<<JNum(v), JNull, JNum(v)>>)}

\* The responses of one model in a hybrid fetch, each with some time entries.
ModelResponses(v) ==
    {Body(TRUE, TRUE, time, arrays) :
        time \in {<<T09>>, <<T09, T10>>, <<T10, T11>>, <<T09, T10, T11>>},
        arrays \in [hourly_params -> ModelArrays(v)]}

\* Single-model mode: the series of the one model, or no data.
FetchSingle ==
    /\ calc.fn = "fetch"
    /\ calc.mode = "single"
    /\ calc.stage = "input"
    /\ calc' = [calc EXCEPT !.stage = "done",
                            !.result = get_temperature_forecast_for_location(calc.primary)]
    /\ UNCHANGED OtherVarsCalc

\* Two models: each response is turned into its series, the series are merged.
FetchHybrid ==
    /\ calc.fn = "fetch"
    /\ calc.mode = "hybrid"
    /\ calc.stage = "input"
    /\ LET a == get_temperature_forecast_for_location(calc.primary)
           b == get_temperature_forecast_for_location(calc.fallback)
       IN calc' = [calc EXCEPT !.stage = "done",
                               !.result = [none |-> FALSE, raised |-> FALSE,
                                           requests |-> a.requests + b.requests,
                                           hourly_data |->
                                              merge_models(a.hourly_data, b.hourly_data)]]
    /\ UNCHANGED OtherVarsCalc

InitFetch ==
    /\ llm = CallIdle
    /\ run = RunIdle
    /\ evalFile = NoFile
    /\ weatherFile = NoWeatherFile
    /\ CACHED_WEATHER_DATA = [none |-> TRUE]
    /\ LAST_FETCH_TIME = 0
    /\ now = 0
    /\ load = [pc |-> "idle", fetcher |-> FALSE]
    /\ web = [pc |-> "idle"]
    /\ \/ \E r \in SingleResponses :
             calc = [fn |-> "fetch", mode |-> "single", stage |-> "input",
                     primary |-> r, fallback |-> FailedResponse("none"), result |-> NoData]
       \/ \E r \in ModelResponses(5), f \in ModelResponses(4) :
             calc = [fn |-> "fetch", mode |-> "hybrid", stage |-> "input",
                     primary |-> r, fallback |-> f, result |-> NoData]

NextFetch ==
    \/ FetchSingle
    \/ FetchHybrid

SpecFetch == InitFetch /\ [][NextFetch]_vars

(***************************************************************************)
(* Properties of the forecast fetcher (SpecFetch).                         *)
(***************************************************************************)
TimesOf(body) == {body.time[i] : i \in 1..Len(body.time)}

\* The element of p's array at the position of time entry i, null past its end.
Positional(body, p, i) ==
    IF body.arrays[p].present /\ i <= Len(body.arrays[p].arr)
    THEN body.arrays[p].arr[i]
    ELSE JNull

\* The value p has in the response at timestamp t (timestamps are distinct).
ResponseValue(body, p, t) ==
    Positional(body, p, CHOOSE i \in 1..Len(body.time) : body.time[i] = t)

NothingFetched(r) == r.kind # "ok" \/ ~r.hasHourly \/ ~r.hasTime \/ r.time = <<>>

EdgeStamps ==
    {Stamp(d, h) : d \in {<<2025, 12, 31>>, <<2026, 1, 1>>}, h \in {8, 9, 17, 18}}
    \cup {BadStamp}

GroupByDays ==
    /\ calc.fn = "days"
    /\ calc.stage = "input"
    /\ calc' = [calc EXCEPT !.stage = "done",
                            !.grouped = days_data(calc.hourly_data),
                            !.days_data = group_by_days(calc.hourly_data)]
    /\ UNCHANGED OtherVarsCalc

\* GET /api/weather on the same series.
ApiWeather ==
    /\ calc.fn = "days"
    /\ calc.api = "input"
    /\ calc' = [calc EXCEPT !.api = "done",
                            !.api_days = api_weather(calc.hourly_data)]
    /\ UNCHANGED OtherVarsCalc

InitDays ==
    /\ llm = CallIdle
    /\ run = RunIdle
    /\ evalFile = NoFile
    /\ weatherFile = NoWeatherFile
    /\ CACHED_WEATHER_DATA = [none |-> TRUE]
    /\ LAST_FETCH_TIME = 0
    /\ now = 0
    /\ load = [pc |-> "idle", fetcher |-> FALSE]
    /\ web = [pc |-> "idle"]
    /\ \E h \in SUBSET EdgeStamps :
          calc = [fn |-> "days", stage |-> "input", api |-> "input",
                  hourly_data |-> h,
                  grouped |-> [k \in {} |-> {}],
                  days_data |-> [k \in {} |-> {}],
                  api_days |-> [k \in {} |-> {}]]

NextDays ==
    \/ GroupByDays
    \/ ApiWeather

SpecDays == InitDays /\ [][NextDays]_vars

(***************************************************************************)
(* Properties of the day segmentation (SpecDays).                          *)
(***************************************************************************)
HoursKept(window) == {t.hour : t \in window}

C21_PartitionByDate ==
    (calc.fn = "days" /\ calc.stage = "done") =>
        /\ \A t \in calc.hourly_data :
              IF t.ok
              THEN /\ DateKey(t.ymd) \in DOMAIN calc.grouped
                   /\ \A k \in DOMAIN calc.grouped :
                         t \in calc.grouped[k] <=> k = DateKey(t.ymd)
              ELSE \A k \in DOMAIN calc.grouped : t \notin calc.grouped[k]
        /\ \A k \in DOMAIN calc.grouped :
              /\ calc.grouped[k] # {}
              /\ calc.grouped[k] \subseteq calc.hourly_data

C21_Witness ==
    /\ calc.fn = "days"
    /\ calc.stage = "done"
    /\ calc.hourly_data = EdgeStamps
    /\ DOMAIN calc.grouped = {"2025-12-31", "2026-01-01"}
    /\ Cardinality(calc.grouped["2025-12-31"]) = 4
    /\ Cardinality(calc.grouped["2026-01-01"]) = 4

\* C22: a date with a timestamp in the series but none inside the flight
\* hours is still a key of the segmentation result, with an empty window: the
\* dates of the result are the dates of the parsable timestamps, in the
\* evaluator's _group_by_days and in api_weather alike.
C22_EmptyDayKept ==
    /\ (calc.fn = "days" /\ calc.stage = "done") =>
          DOMAIN calc.days_data = GroupedKeys(calc.hourly_data)
    /\ (calc.fn = "days" /\ calc.api = "done") =>
          DOMAIN calc.api_days = GroupedKeys(calc.hourly_data)

(***************************************************************************)
(* The back-off delays of one call (SpecLLM).                               *)
(***************************************************************************)
NonDecreasing(seq) == \A k \in 1..(Len(seq) - 1) : seq[k] <= seq[k + 1]

\* C24: whatever the mix of failures, the k-th sleep follows attempt k and
\* lasts 2^k s after a 429 and 2^(k-1) s after any other retried failure, so
\* the delays never decrease; a 429 on the last attempt is still followed by
\* its sleep before the call raises, any other failure on the last attempt
\* raises with no sleep after the request.
C24_BackoffDelays ==
    /\ Len(llm.sleeps) <= Len(llm.outcomes)
    /\ \A k \in 1..Len(llm.sleeps) :
          llm.sleeps[k] = IF Is429(llm.outcomes[k]) THEN 2 ^ k ELSE 2 ^ (k - 1)
    /\ NonDecreasing(llm.sleeps)
    /\ Len(llm.outcomes) = max_retries =>
          IF Is429(llm.outcomes[max_retries])
          THEN /\ Len(llm.sleeps) = max_retries
               /\ llm.trace[Len(llm.trace)] = [ev |-> "sleep", n |-> 2 ^ max_retries]
               /\ LoopDone(llm) \/ llm.pc = "raised"
          ELSE /\ Len(llm.sleeps) = max_retries - 1
               /\ llm.trace[Len(llm.trace)] = [ev |-> "request", n |-> max_retries]
               /\ Terminated(llm)

C24_Witness ==
    /\ llm.pc = "raised"
    /\ Len(llm.outcomes) = max_retries
    /\ Is429(llm.outcomes[1])
    /\ llm.outcomes[2].kind = "timeout"
    /\ Is429(llm.outcomes[3])
    /\ llm.sleeps = <<2, 2, 8>>

(***************************************************************************)
(* The cache after a failed load (SpecCache).                               *)
(***************************************************************************)
\* C26: a load_weather_data call that ends by raising leaves
\* CACHED_WEATHER_DATA and LAST_FETCH_TIME as they were before the call, and
\* returns nothing: an expired entry is not cleared, not refreshed, not served.
C26_FailedLoadKeepsCache ==
    [][(LoadWeatherData /\ load'.pc = "raised") =>
          /\ CACHED_WEATHER_DATA' = CACHED_WEATHER_DATA
          /\ LAST_FETCH_TIME' = LAST_FETCH_TIME
          /\ load'.result = None
          /\ ~CacheFresh(CACHED_WEATHER_DATA, LAST_FETCH_TIME, now)]_vars

\* An expired entry that outlived a failed call.
C26_Witness ==
    /\ load.pc = "raised"
    /\ ~load.cacheBefore.none
    /\ load.age >= CACHE_DURATION
    /\ CACHED_WEATHER_DATA = load.cacheBefore
    /\ LAST_FETCH_TIME = load.lastBefore
    /\ LAST_FETCH_TIME > 0

(***************************************************************************)
(* When a request regenerates the evaluations (SpecWeb).                   *)
(***************************************************************************)
\* The file the lookup of lines 297-308 settled on: /tmp first, then data/.
FoundFile(g) == IF g.fileBefore.exists THEN g.fileBefore ELSE web.data_file

\* C29: one get_evaluation_data call runs analyze() at most once, and only
\* when neither /tmp/evaluations.json nor data/evaluations.json exists; when
\* the file it finds cannot be parsed it returns the empty result, runs no
\* analysis and leaves the file as it is, so the next read finds the same
\* unparsable file.
C29_RegenerateOnlyOnMiss ==
    web.pc = "answered" =>
        LET g == web.call
        IN /\ g.analyzeRuns <= 1
           /\ g.analyzeRuns = 1 =>
                 (~g.fileBefore.exists /\ ~web.data_file.exists)
           /\ (FoundFile(g).exists /\ ~FoundFile(g).complete) =>
                 /\ g.analyzeRuns = 0
                 /\ g.pc = "returned"
                 /\ g.result = EmptyDict
                 /\ g.fileAfter = g.fileBefore

\* An unparsable data/evaluations.json, nothing in /tmp: empty, no analysis.
C29_Witness ==
    /\ web.pc = "answered"
    /\ web.call.found = "data"
    /\ ~web.data_file.complete
    /\ ~evalFile.exists
    /\ weatherFile.exists
    /\ web.call.analyzeRuns = 0
    /\ web.call.reads = 1
    /\ web.call.result = EmptyDict

(***************************************************************************)
(* A run of analyze() without verdicts (Spec).                             *)
(***************************************************************************)
\* What get_evaluation_data reads from the evaluations file.
Served(file) == ReadEvaluations(file.exists, file).result

\* The run that returned no verdict: no date, no save attempt, no hand-off.
C30_EmptyRunDone ==
    (run.pc = "done" /\ run.returned = <<>>) =>
        /\ \A t \in weatherFile.hourly : ~t.ok
        /\ run.saved = "none"
        /\ \A p \in 1..Len(run.trace) : run.trace[p] \notin {"save", "notify"}
        /\ evalFile.exists => Served(evalFile) = Served(OldBatch)

\* A step of a run that has no verdict leaves the evaluations file alone.
C30_EmptyRunStep ==
    (run.results = <<>> /\ run'.results = <<>>) =>
        /\ evalFile' = evalFile
        /\ Served(evalFile') = Served(evalFile)

\* C30: a run of analyze() whose series has no parsable date returns the
\* empty list without a save attempt and without a notifier hand-off; no step
\* of such a run changes the evaluations file, so the batch persisted before
\* the run is still what the read path serves after it.
C30_EmptyRunPersistsNothing == [](C30_EmptyRunDone) /\ [][C30_EmptyRunStep]_vars

C30_Witness ==
    /\ run.pc = "done"
    /\ run.returned = <<>>
    /\ run.email_notifier
    /\ weatherFile.hourly = {BadStamp}
    /\ evalFile = OldBatch
    /\ DOMAIN Served(evalFile) = {"2025-12-30"}

(***************************************************************************)
(* SpecCron: the scheduled job (api/cron.handler, web.api_cron) and the    *)
(* manual update (web.api_trigger_update), one such request next to the    *)
(* dashboard's load_weather_data calls.                                     *)
(***************************************************************************)
\* fetch_weather_for_location(save_to_file=True, output_path=...): the file
\* it leaves and whether what it returns is truthy.
FetchStep(weather, fetched) ==
    [raised |-> fetched = "raises",
     truthy |-> fetched \in {"data", "no_site"},
     file |-> IF fetched \in {"data", "no_site"}
              THEN [FetchedFile(weather) EXCEPT !.hasSite = (fetched = "data")]
              ELSE weather]

\* LocationEvaluator(weather_json_path=...) and evaluator.analyze(): the
\* constructor raises without OPENAI_API_KEY, before analyze() is called.
AnalysisStep(weather, file, inp) ==
    IF ~inp.api_key
    THEN [raised |-> TRUE, runs |-> 0, results |-> <<>>, file |-> file]
    ELSE LET a == analyze(weather, file, inp.calls, inp.save)
         IN [raised |-> a.raised, runs |-> 1, results |-> a.results, file |-> a.file]

StepResult(ok) == IF ok THEN "ok" ELSE "failed"

FetchErrorText == "Fehler beim Abrufen der Wetterdaten"

AnalysisErrorText == "Fehler bei der LLM-Analyse"

UnexpectedErrorText == "Unerwarteter Fehler im Cron-Job: Fehler beim Abrufen der Wetterdaten"

\* What a request did: the answer, and the files it left.
JobLog(entry, statusCode, success, steps, errors, fetchOk, a, weather) ==
    [entry |-> entry, raised |-> FALSE, statusCode |-> statusCode,
     success |-> success, steps |-> steps, errors |-> errors,
     fetchOk |-> fetchOk, analyzeRuns |-> a.runs, batch |-> a.results,
     weather |-> weather, file |-> a.file]

NotRun(file) == [raised |-> FALSE, runs |-> 0, results |-> <<>>, file |-> file]

\* Faulty variant: the failed fetch is re-raised with no outer handler.
handlerFetchEscapes(weather, file, inp) ==
    LET f == FetchStep(weather, inp.fetched)
        a == AnalysisStep(f.file, file, inp)
        evalOk == ~a.raised /\ a.results # <<>>
    IN IF f.raised \/ ~f.truthy
       THEN [JobLog("handler", 500, FALSE,
                    [fetch_weather |-> "failed", location_evaluator |-> "absent",
                     email_notifier |-> "absent"],
                    <<FetchErrorText>>, FALSE, NotRun(file), f.file)
             EXCEPT !.raised = TRUE]
       ELSE JobLog("handler", IF evalOk THEN 200 ELSE 500, evalOk,
                   [fetch_weather |-> "ok", location_evaluator |-> StepResult(evalOk),
                    email_notifier |-> StepResult(evalOk)],
                   IF evalOk THEN <<>> ELSE <<AnalysisErrorText>>, TRUE, a, f.file)

\* api/cron.handler.  A fetch that raises or returns nothing is recorded and
\* re-raised to the outer handler (lines 71-79, 177-191); a failed analysis is
\* recorded and the handler goes on (118-126).
handler(weather, file, inp) ==
    LET f == FetchStep(weather, inp.fetched)
        a == AnalysisStep(f.file, file, inp)
        evalOk == ~a.raised /\ a.results # <<>>
    IN IF f.raised \/ ~f.truthy
       THEN JobLog("handler", 500, FALSE,
                   [fetch_weather |-> "failed", location_evaluator |-> "absent",
                    email_notifier |-> "absent"],
                   <<FetchErrorText, UnexpectedErrorText>>, FALSE, NotRun(file), f.file)
       ELSE JobLog("handler", IF evalOk THEN 200 ELSE 500, evalOk,
                   [fetch_weather |-> "ok", location_evaluator |-> StepResult(evalOk),
                    email_notifier |-> StepResult(evalOk)],
                   IF evalOk THEN <<>> ELSE <<AnalysisErrorText>>, TRUE, a, f.file)

NoSteps == [weather |-> "absent", llm |-> "absent", email |-> "absent"]

\* web.api_cron.  fetcher: the import of fetch_weather_for_location worked.
api_cron(fetcher, weather, file, inp) ==
    LET f == IF fetcher THEN FetchStep(weather, inp.fetched)
             ELSE [raised |-> FALSE, truthy |-> FALSE, file |-> weather]
        a == AnalysisStep(f.file, file, inp)
        llmOk == ~a.raised /\ a.results # <<>>
    IN IF f.raised
       THEN JobLog("api_cron", 500, FALSE, NoSteps, <<"exception">>, FALSE,
                   NotRun(file), f.file)
       ELSE JobLog("api_cron", 200, f.truthy /\ llmOk,
                   [weather |-> StepResult(f.truthy), llm |-> StepResult(llmOk),
                    email |-> "ok"],
                   <<>>, f.truthy, a, f.file)

NoUpdateSteps == [fetch |-> "absent", evaluate |-> "absent", email |-> "absent"]

\* web.api_trigger_update: any exception ends the request with a 500.
api_trigger_update(fetcher, weather, file, inp) ==
    LET f == FetchStep(weather, inp.fetched)
        a == AnalysisStep(f.file, file, inp)
    IN IF ~fetcher
       THEN JobLog("api_trigger_update", 500, FALSE, NoUpdateSteps, <<"exception">>,
                   FALSE, NotRun(file), weather)
       ELSE IF f.raised
       THEN JobLog("api_trigger_update", 500, FALSE, NoUpdateSteps, <<"exception">>,
                   FALSE, NotRun(file), f.file)
       ELSE IF a.raised
       THEN JobLog("api_trigger_update", 500, FALSE, NoUpdateSteps, <<"exception">>,
                   f.truthy, a, f.file)
       ELSE JobLog("api_trigger_update", 200, TRUE,
                   [fetch |-> StepResult(f.truthy),
                    evaluate |-> StepResult(a.results # <<>>), email |-> "ok"],
                   <<>>, f.truthy, a, f.file)

\* The days' LLM calls when the analysis is not reached.
NoCalls == [i \in 1..FORECAST_DAYS |-> PromptFailed]

\* What the environment does during a request; the save of the batch works
\* (its failures are followed in Spec and SpecWeb).
JobInput(fetched, api_key, calls) ==
    [fetched |-> fetched, api_key |-> api_key, save |-> "ok", calls |-> calls]

\* A request's effect: the files it wrote and its log; the module globals of
\* web.py are not assigned by any of the three.
JobDone(g) ==
    /\ g.weather.version <= MaxVersion
    /\ weatherFile' = g.weather
    /\ evalFile' = g.file
    /\ web' = [pc |-> "answered", at |-> now, call |-> g]
    /\ UNCHANGED <<CACHED_WEATHER_DATA, LAST_FETCH_TIME, now, load, run, llm, calc>>

\* The scheduled job of api/cron.py.
CronHandler ==
    /\ web.pc = "idle"
    /\ \E fetched \in FetchOutcomes, api_key \in BOOLEAN, calls \in DayCalls :
        \E g \in {handler(weatherFile, evalFile, JobInput(fetched, api_key, calls))} :
           /\ Unused(~load.fetcher, fetched, "raises")
           /\ Unused(~g.fetchOk, api_key, FALSE)
           /\ Unused(g.analyzeRuns = 0, calls, NoCalls)
           /\ JobDone(g)

\* GET or POST /api/cron.
ApiCron ==
    /\ web.pc = "idle"
    /\ \E fetched \in FetchOutcomes, api_key \in BOOLEAN, calls \in DayCalls :
        \E g \in {api_cron(load.fetcher, weatherFile, evalFile,
                       JobInput(fetched, api_key, calls))} :
           /\ Unused(~load.fetcher, fetched, "raises")
           /\ Unused(g.statusCode = 500, api_key, FALSE)
           /\ Unused(g.analyzeRuns = 0, calls, NoCalls)
           /\ JobDone(g)

\* Faulty variant: the update drops the cache as api_config_apply does.
ApiTriggerUpdateInvalidates ==
    /\ web.pc = "idle"
    /\ \E fetched \in FetchOutcomes, api_key \in BOOLEAN, calls \in DayCalls :
        \E g \in {api_trigger_update(load.fetcher, weatherFile, evalFile,
                                 JobInput(fetched, api_key, calls))} :
           /\ Unused(~load.fetcher, fetched, "raises")
           /\ Unused(~load.fetcher \/ fetched = "raises", api_key, FALSE)
           /\ Unused(g.analyzeRuns = 0, calls, NoCalls)
           /\ g.weather.version <= MaxVersion
           /\ weatherFile' = g.weather
           /\ evalFile' = g.file
           /\ web' = [pc |-> "answered", at |-> now, call |-> g]
           /\ CACHED_WEATHER_DATA' = None
           /\ LAST_FETCH_TIME' = 0
           /\ UNCHANGED <<now, load, run, llm, calc>>

\* POST /api/trigger-update.
ApiTriggerUpdate ==
    /\ web.pc = "idle"
    /\ \E fetched \in FetchOutcomes, api_key \in BOOLEAN, calls \in DayCalls :
        \E g \in {api_trigger_update(load.fetcher, weatherFile, evalFile,
                                 JobInput(fetched, api_key, calls))} :
           /\ Unused(~load.fetcher, fetched, "raises")
           /\ Unused(~load.fetcher \/ fetched = "raises", api_key, FALSE)
           /\ Unused(g.analyzeRuns = 0, calls, NoCalls)
           /\ JobDone(g)

\* The weather file a job may find: none (a fetch then writes an empty
\* series) or one stored earlier that yields verdicts.
CronWeatherFiles ==
    {NoWeatherFile, WeatherFile(TRUE, TRUE, TRUE, 1, {Stamp(<<2025, 12, 31>>, 12)})}

InitCron ==
    /\ llm = CallIdle
    /\ run = RunIdle
    /\ evalFile = NoFile
    /\ weatherFile \in CronWeatherFiles
    /\ CACHED_WEATHER_DATA = None
    /\ LAST_FETCH_TIME = 0
    /\ now = 0
    /\ \E f \in BOOLEAN :
          load = [LoadLog("idle", "none", None, 0, 0,
                          [now |-> 0, last |-> 0, cache |-> None, fetcher |-> f])
                  EXCEPT !.fetcher = f]
    /\ web = [pc |-> "idle"]
    /\ calc = [fn |-> "none"]

NextCron ==
    \/ CronHandler
    \/ ApiCron
    \/ ApiTriggerUpdate
    \/ LoadWeatherData
    \/ Tick

SpecCron == InitCron /\ [][NextCron]_vars

(***************************************************************************)
(* Properties of the scheduled job and the manual update (SpecCron).       *)
(***************************************************************************)
HandlerSteps == {"fetch_weather", "location_evaluator", "email_notifier"}

\* C23: api/cron.handler lets no exception out, whichever of the fetch and
\* the analysis fails: it returns the status object with the success flag,
\* the steps reached and, after a failure, the error texts; statusCode is 200
\* exactly when fetch, analysis and notification step all succeeded, and 500
\* otherwise.
C23_HandlerNeverRaises ==
    (web.pc = "answered" /\ web.call.entry = "handler") =>
        LET g == web.call
        IN /\ ~g.raised
           /\ g.success \in BOOLEAN
           /\ g.statusCode \in {200, 500}
           /\ g.statusCode = 200 <=> \A s \in HandlerSteps : g.steps[s] = "ok"
           /\ g.statusCode = 200 <=> g.success
           /\ g.steps.fetch_weather # "absent"
           /\ g.steps.fetch_weather = "failed" =>
                 /\ g.errors = <<FetchErrorText, UnexpectedErrorText>>
                 /\ g.analyzeRuns = 0
           /\ g.steps.location_evaluator = "failed" =>
                 /\ g.errors = <<AnalysisErrorText>>
                 /\ g.steps.email_notifier = "failed"
           /\ g.success => g.errors = <<>> /\ g.batch # <<>>

\* A job whose fetch worked and whose analysis failed.
C23_Witness ==
    /\ web.pc = "answered"
    /\ web.call.entry = "handler"
    /\ web.call.steps.fetch_weather = "ok"
    /\ web.call.steps.location_evaluator = "failed"
    /\ web.call.analyzeRuns = 1
    /\ web.call.statusCode = 500
    /\ ~web.call.raised

\* C25: in api/cron.handler and in web.api_cron a failed weather fetch ends
\* the job as failed with analyze() not called, so no batch is produced from
\* the weather file stored before.
C25_NoAnalysisAfterFailedFetch ==
    (web.pc = "answered" /\ web.call.entry \in {"handler", "api_cron"}
        /\ ~web.call.fetchOk) =>
        /\ ~web.call.success
        /\ web.call.analyzeRuns = 0
        /\ web.call.batch = <<>>

UpdateEntries == {"api_trigger_update", "api_cron"}

\* A step in which api_trigger_update or api_cron ran assigns neither global.
C27_Frame ==
    (web.pc = "idle" /\ web'.pc = "answered" /\ web'.call.entry \in UpdateEntries) =>
        /\ CACHED_WEATHER_DATA' = CACHED_WEATHER_DATA
        /\ LAST_FETCH_TIME' = LAST_FETCH_TIME

\* The last load_weather_data call came after the update and found a cache
\* entry from before it that was younger than CACHE_DURATION.
LoadAfterUpdate ==
    /\ web.pc = "answered"
    /\ web.call.entry \in UpdateEntries
    /\ load.pc # "idle"
    /\ ~load.cacheBefore.none
    /\ load.lastBefore < web.at
    /\ web.at < load.at
    /\ load.age < CACHE_DURATION

C27_StaleServed ==
    LoadAfterUpdate =>
        /\ load.pc = "returned"
        /\ load.path = "cache"
        /\ load.fileReads = 0
        /\ load.fetchCalls = 0
        /\ load.result.version = load.cacheBefore.version

\* C27: api_trigger_update and api_cron leave CACHED_WEATHER_DATA and
\* LAST_FETCH_TIME as they are, so a load_weather_data call made after either
\* of them, while the entry cached before is younger than 300 s, returns that
\* entry's series without reading the rewritten weather file.
C27_UpdateKeepsCache == [](C27_StaleServed) /\ [][C27_Frame]_vars

\* The file was rewritten (version 2), the dashboard still gets version 1.
C27_Witness ==
    /\ LoadAfterUpdate
    /\ web.call.entry = "api_trigger_update"
    /\ web.call.fetchOk
    /\ web.call.statusCode = 200
    /\ weatherFile = web.call.weather
    /\ load.path = "cache"
    /\ load.result.version < weatherFile.version

(***************************************************************************)
(* SpecRace: load_weather_data run by two request threads, statement by     *)
(* statement, next to api_config_apply; nothing locks the two globals.      *)
(* loaded_at records when a series was read from the file or fetched.       *)
(***************************************************************************)
Threads == {"A", "B"}

\* Calls one thread makes.
MaxCalls == 2

Loaded(version, debug_source, loaded_at) ==
    [none |-> FALSE, version |-> version, debug_source |-> debug_source,
     loaded_at |-> loaded_at]

CallState(pc, current_time, data, calls) ==
    [pc |-> pc, current_time |-> current_time, data |-> data, calls |-> calls]

NothingServed == [series |-> None, at |-> 0, by |-> ""]

OtherVarsRace == <<llm, run, evalFile, calc>>

\* One thread moves, the other keeps its place.
Moves(t, st) == load' = [load EXCEPT !.calls[t] = st]

\* Line 82: current_time = time.time().
BeginLoad(t) ==
    /\ load.calls[t].pc = "idle"
    /\ load.calls[t].calls < MaxCalls
    /\ Moves(t, CallState("check", now, None, load.calls[t].calls + 1))
    /\ UNCHANGED <<CACHED_WEATHER_DATA, LAST_FETCH_TIME, weatherFile, now, web>>
    /\ UNCHANGED OtherVarsRace

\* Line 85: the test on the two globals.
CheckCache(t) ==
    /\ load.calls[t].pc = "check"
    /\ Moves(t, [load.calls[t] EXCEPT !.pc =
                    IF CacheFresh(CACHED_WEATHER_DATA, LAST_FETCH_TIME,
                                  load.calls[t].current_time)
                    THEN "serve" ELSE "read"])
    /\ UNCHANGED <<CACHED_WEATHER_DATA, LAST_FETCH_TIME, weatherFile, now, web>>
    /\ UNCHANGED OtherVarsRace

\* Lines 87-90: return CACHED_WEATHER_DATA, read again from the global; the
\* log keeps the call's current_time, the moment its test on line 85 used.
ServeCached(t) ==
    /\ load.calls[t].pc = "serve"
    /\ load' = [load EXCEPT !.calls[t].pc = "idle",
                            !.served = [series |-> CACHED_WEATHER_DATA,
                                        at |-> load.calls[t].current_time,
                                        by |-> t]]
    /\ UNCHANGED <<CACHED_WEATHER_DATA, LAST_FETCH_TIME, weatherFile, now, web>>
    /\ UNCHANGED OtherVarsRace

\* Lines 93-108: the file is there and holds the site's entry.
ReadFile(t) ==
    /\ load.calls[t].pc = "read"
    /\ FileGood(weatherFile)
    /\ Moves(t, [load.calls[t] EXCEPT
                    !.pc = "store",
                    !.data = Loaded(weatherFile.version, "FILE_SYSTEM", now)])
    /\ UNCHANGED <<CACHED_WEATHER_DATA, LAST_FETCH_TIME, weatherFile, now, web>>
    /\ UNCHANGED OtherVarsRace

\* Lines 127-141 and 152-157: no usable file, the live fetch; without data
\* the call raises.
FetchLive(t) ==
    /\ load.calls[t].pc = "read"
    /\ ~FileGood(weatherFile)
    /\ \E fetched \in FetchOutcomes :
          LET f == FetchStep(weatherFile, fetched)
          IN /\ f.file.version <= MaxVersion
             /\ weatherFile' = f.file
             /\ Moves(t, IF fetched = "data"
                         THEN [load.calls[t] EXCEPT
                                  !.pc = "store",
                                  !.data = Loaded(f.file.version, "LIVE_FETCH", now)]
                         ELSE [load.calls[t] EXCEPT !.pc = "idle"])
    /\ UNCHANGED <<CACHED_WEATHER_DATA, LAST_FETCH_TIME, now, web>>
    /\ UNCHANGED OtherVarsRace

\* Line 111 or 144: CACHED_WEATHER_DATA = ...
StoreCache(t) ==
    /\ load.calls[t].pc = "store"
    /\ CACHED_WEATHER_DATA' = load.calls[t].data
    /\ Moves(t, [load.calls[t] EXCEPT !.pc = "stamp"])
    /\ UNCHANGED <<LAST_FETCH_TIME, weatherFile, now, web>>
    /\ UNCHANGED OtherVarsRace

\* Line 115 or 145: LAST_FETCH_TIME = current_time, then the return.
StampTime(t) ==
    /\ load.calls[t].pc = "stamp"
    /\ LAST_FETCH_TIME' = load.calls[t].current_time
    /\ Moves(t, [load.calls[t] EXCEPT !.pc = "idle", !.data = None])
    /\ UNCHANGED <<CACHED_WEATHER_DATA, weatherFile, now, web>>
    /\ UNCHANGED OtherVarsRace

\* api_config_apply, line 446: the fetch into the weather file; a fetch that
\* raises ends the request.
ConfigFetch ==
    /\ web.pc = "idle"
    /\ \E fetched \in FetchOutcomes :
          LET f == FetchStep(weatherFile, fetched)
          IN /\ f.file.version <= MaxVersion
             /\ weatherFile' = f.file
             /\ web' = [pc |-> IF f.raised THEN "idle" ELSE "fetched"]
    /\ UNCHANGED <<CACHED_WEATHER_DATA, LAST_FETCH_TIME, now, load>>
    /\ UNCHANGED OtherVarsRace

\* Line 451: CACHED_WEATHER_DATA = None.
ConfigClear ==
    /\ web.pc = "fetched"
    /\ CACHED_WEATHER_DATA' = None
    /\ web' = [pc |-> "cleared"]
    /\ UNCHANGED <<LAST_FETCH_TIME, weatherFile, now, load>>
    /\ UNCHANGED OtherVarsRace

\* Line 452: LAST_FETCH_TIME = 0; the rest of the request does not touch the cache.
ConfigReset ==
    /\ web.pc = "cleared"
    /\ LAST_FETCH_TIME' = 0
    /\ web' = [pc |-> "idle"]
    /\ UNCHANGED <<CACHED_WEATHER_DATA, weatherFile, now, load>>
    /\ UNCHANGED OtherVarsRace

\* Seconds that pass between two steps of the requests, and the last moment;
\* the clock starts CACHE_DURATION after the epoch LAST_FETCH_TIME starts at.
RaceStep == 150

RaceMaxTime == 600

Pass ==
    /\ now + RaceStep <= RaceMaxTime
    /\ now' = now + RaceStep
    /\ UNCHANGED <<CACHED_WEATHER_DATA, LAST_FETCH_TIME, weatherFile, load, web>>
    /\ UNCHANGED OtherVarsRace

InitRace ==
    /\ llm = CallIdle
    /\ run = RunIdle
    /\ evalFile = NoFile
    /\ CACHED_WEATHER_DATA = None
    /\ LAST_FETCH_TIME = 0
    /\ now = CACHE_DURATION
    /\ web = [pc |-> "idle"]
    /\ calc = [fn |-> "none"]
    /\ weatherFile \in {NoWeatherFile, WeatherFile(TRUE, TRUE, TRUE, 1, {})}
    /\ load = [fetcher |-> TRUE, served |-> NothingServed,
               calls |-> [t \in Threads |-> CallState("idle", 0, None, 0)]]

NextRace ==
    \/ \E t \in Threads :
          \/ BeginLoad(t)
          \/ CheckCache(t)
          \/ ServeCached(t)
          \/ ReadFile(t)
          \/ FetchLive(t)
          \/ StoreCache(t)
          \/ StampTime(t)
    \/ ConfigFetch
    \/ ConfigClear
    \/ ConfigReset
    \/ Pass

SpecRace == InitRace /\ [][NextRace]_vars

(***************************************************************************)
(* Properties of the unlocked cache (SpecRace).                             *)
(***************************************************************************)
\* C28: in every interleaving LAST_FETCH_TIME is not later than the moment
\* the cached series was read from the file or fetched, and a series the
\* fast path served had been read or fetched less than CACHE_DURATION
\* seconds before the moment of the serving call.
C28_CacheAgeBound ==
    /\ ~CACHED_WEATHER_DATA.none =>
          LAST_FETCH_TIME <= CACHED_WEATHER_DATA.loaded_at
    /\ ~load.served.series.none =>
          load.served.at - load.served.series.loaded_at < CACHE_DURATION

====
